---- MODULE Spec2Model ----
(***************************************************************************)
(* Model of the riscv-emu execution engine: Machine::step, handle_trap,    *)
(* finish_step (src/src/cpu/mod.rs), execute (src/src/cpu/exec.rs), decode *)
(* (src/src/cpu/decode.rs), Trap (src/src/cpu/trap.rs) and CsrFile         *)
(* (src/src/csr/mod.rs).                                                   *)
(*                                                                         *)
(* A 64-bit value (u64) is the set of the positions of its one bits, a     *)
(* subset of 0..63; a 32-bit instruction word is a subset of 0..31.  The   *)
(* bitwise operators of the source are set operations, shifts are          *)
(* translations of the positions and wrapping addition is a carry chain    *)
(* over the 64 positions, so every width of the source is kept.            *)
(***************************************************************************)
EXTENDS Integers, FiniteSets, Sequences, TLC

\* ------------------------------------------------------------------------
\* Bounds of the exploration
\* ------------------------------------------------------------------------

\* Number of step() calls the host loop makes after the boot image has run.
MaxSteps == 2

\* ------------------------------------------------------------------------
\* u64 arithmetic on sets of bit positions
\* ------------------------------------------------------------------------

Bits64 == 0..63

Bits32 == 0..31

Zero == {}

AllOnes == Bits64

\* 1 << n
Bit(n) == {n}

And(a, b) == a \cap b

Or(a, b) == a \cup b

\* !a on a u64
Not(a) == Bits64 \ a

\* a << n on a u64 (bits shifted past bit 63 are lost)
Shl(a, n) == {i + n : i \in a} \cap Bits64

\* a >> n on a u64 (logical)
Shr(a, n) == {i - n : i \in a} \cap Bits64

RECURSIVE NatBits(_, _)
NatBits(n, i) ==
    IF n = 0 THEN {}
    ELSE (IF n % 2 = 1 THEN {i} ELSE {}) \cup NatBits(n \div 2, i + 1)

\* A small natural number as a u64.
FromNat(n) == NatBits(n, 0)

\* The weight of bit i in s.
Weight(s, i) == IF i \in s THEN 2 ^ i ELSE 0

\* A value of at most 12 bits as a natural number.
ToNat(s) ==
    Weight(s, 0) + Weight(s, 1) + Weight(s, 2) + Weight(s, 3) +
    Weight(s, 4) + Weight(s, 5) + Weight(s, 6) + Weight(s, 7) +
    Weight(s, 8) + Weight(s, 9) + Weight(s, 10) + Weight(s, 11)

\* The field of `width` bits of v that starts at bit `lo`, as a number:
\* (v >> lo) & ((1 << width) - 1)
Field(v, lo, width) == ToNat(Shr(v, lo) \cap (0..(width - 1)))

\* The carry into bit i of a + b + cin: some lower position generates a
\* carry (both bits set, or the carry-in below bit 0) and every position
\* between it and i propagates it (at least one bit set).
CarryInto(gen, prop, cin, i) ==
    \/ cin = 1 /\ \A k \in 0..(i - 1) : k \in prop
    \/ \E j \in gen : j < i /\ \A k \in (j + 1)..(i - 1) : k \in prop

\* The 64-bit sum from the generate and propagate sets of the operands.
SumBits(a, b, gen, prop, cin) ==
    {i \in Bits64 : ((i \in a) # (i \in b)) # CarryInto(gen, prop, cin, i)}

\* a + b + cin modulo 2^64
AddCarry(a, b, cin) == SumBits(a, b, a \cap b, a \cup b, cin)

\* u64::wrapping_add
wrapping_add(a, b) == AddCarry(a, b, 0)

\* u64::wrapping_sub: a + !b + 1
wrapping_sub(a, b) == AddCarry(a, Not(b), 1)

\* a < b on u64: the highest position where they differ is set in b.
LtU(a, b) == \E i \in b \ a : \A j \in a \ b : j < i

\* (a as i64) < (b as i64)
LtS(a, b) ==
    IF (63 \in a) # (63 \in b) THEN 63 \in a ELSE LtU(a, b)

\* sign_extend(val, bits): (val << (64 - bits)) >> (64 - bits) on an i64
sign_extend(val, bits) ==
    IF (bits - 1) \in val
    THEN (val \cap (0..(bits - 1))) \cup (bits..63)
    ELSE val \cap (0..(bits - 1))

\* ------------------------------------------------------------------------
\* Privilege modes (enum discriminants)
\* ------------------------------------------------------------------------

User == 0

Supervisor == 1

Machine == 3

PrivMode == {User, Supervisor, Machine}

\* PrivMode::from_u64(val).unwrap_or(PrivMode::User)
from_u64_or_user(val) == IF val \in PrivMode THEN val ELSE User

\* ------------------------------------------------------------------------
\* CsrFile (src/src/csr/mod.rs)
\* ------------------------------------------------------------------------

\* CsrFile::default(): every register zero, privilege Machine.
CsrFileDefault ==
    [priv_mode |-> Machine,
     mstatus |-> Zero, mtvec |-> Zero, mepc |-> Zero, mcause |-> Zero,
     mtval |-> Zero, mie |-> Zero, mip |-> Zero, medeleg |-> Zero,
     mideleg |-> Zero, mscratch |-> Zero,
     stvec |-> Zero, sepc |-> Zero, scause |-> Zero, stval |-> Zero,
     sscratch |-> Zero, satp |-> Zero,
     cycle |-> Zero, time |-> Zero,
     pmpaddr0 |-> Zero, pmpcfg0 |-> Zero, mhartid |-> Zero]

MSTATUS_MIE == Bit(3)

MSTATUS_SIE == Bit(1)

MSTATUS_MPIE == Bit(7)

MSTATUS_SPIE == Bit(5)

MSTATUS_MPP == {11, 12}

MSTATUS_SPP == Bit(8)

MSTATUS_MPRV == Bit(17)

MSTATUS_SUM == Bit(18)

MSTATUS_MXR == Bit(19)

\* mpp without the unwrap_or(User): the raw MPP field, reserved value included.
mpp_raw(c) == Field(c.mstatus, 11, 2)

\* CsrFile::mpp
mpp(c) == from_u64_or_user(Field(c.mstatus, 11, 2))

\* CsrFile::set_mpp
set_mpp(c, mode) ==
    [c EXCEPT !.mstatus = Or(And(c.mstatus, Not(MSTATUS_MPP)), Shl(FromNat(mode), 11))]

\* CsrFile::spp
spp(c) == IF And(c.mstatus, MSTATUS_SPP) # Zero THEN Supervisor ELSE User

\* CsrFile::set_spp
set_spp(c, mode) ==
    IF mode = Supervisor
    THEN [c EXCEPT !.mstatus = Or(c.mstatus, MSTATUS_SPP)]
    ELSE [c EXCEPT !.mstatus = And(c.mstatus, Not(MSTATUS_SPP))]

\* should_delegate_exception without the test for Machine mode.
should_delegate_exception_any_mode(c, cause) ==
    And(c.medeleg, Shl(Bit(0), cause)) # Zero

\* CsrFile::should_delegate_exception
should_delegate_exception(c, cause) ==
    IF c.priv_mode = Machine THEN FALSE
    ELSE And(c.medeleg, Shl(Bit(0), cause)) # Zero

\* CsrFile::should_delegate_interrupt
should_delegate_interrupt(c, cause) ==
    IF c.priv_mode = Machine THEN FALSE
    ELSE And(c.mideleg, Shl(Bit(0), cause)) # Zero

\* SIE, SPIE, SPP, SUM, MXR, FS, XS, SD, UXL
SSTATUS_MASK == {1, 5, 8, 18, 19, 13, 14, 15, 16, 63, 32, 33, 34, 35}

\* A write mask that lets a write of sstatus reach every bit of mstatus.
SstatusAllWritable == Bits64

\* SIE, SPIE, SPP, SUM, MXR
SSTATUS_WRITABLE == {1, 5, 8, 18, 19}

\* CsrFile::sstatus
sstatus(c) == And(c.mstatus, SSTATUS_MASK)

\* CsrFile::write_sstatus
write_sstatus(c, value) ==
    [c EXCEPT !.mstatus = Or(And(c.mstatus, Not(SSTATUS_WRITABLE)),
                             And(value, SSTATUS_WRITABLE))]

\* SSIP, STIP, SEIP
SIP_MASK == {1, 5, 9}

\* CsrFile::sip
sip(c) == And(c.mip, SIP_MASK)

SSIP == Bit(1)

\* CsrFile::write_sip
write_sip(c, value) ==
    [c EXCEPT !.mip = Or(And(c.mip, Not(SSIP)), And(value, SSIP))]

\* SSIE, STIE, SEIE
SIE_MASK == {1, 5, 9}

\* CsrFile::sie
sie(c) == And(c.mie, SIE_MASK)

SIE_WRITABLE == {1, 5, 9}

\* CsrFile::write_sie
write_sie(c, value) ==
    [c EXCEPT !.mie = Or(And(c.mie, Not(SIE_WRITABLE)), And(value, SIE_WRITABLE))]

\* check_csr_privilege without the comparison to the current privilege.
check_csr_privilege_unranked(c, csr) ==
    IF (csr \div 256) % 4 = 2 THEN "UnsupportedRead" ELSE "Ok"

\* CsrFile::check_csr_privilege; "Ok" or the CsrError variant.
check_csr_privilege(c, csr) ==
    LET priv_level == (csr \div 256) % 4
    IN  IF priv_level = 2 THEN "UnsupportedRead"
        ELSE IF c.priv_mode < priv_level THEN "PrivilegeViolation"
        ELSE "Ok"

\* misa: RV64IMAC, 0x8000000000141101
MISA == {63, 20, 18, 12, 8, 0}

\* CsrFile::read; [err |-> "Ok", val |-> value] or [err |-> CsrError variant].
read(c, csr) ==
    LET Okv(v) == [err |-> "Ok", val |-> v]
    IN  IF check_csr_privilege(c, csr) # "Ok"
        THEN [err |-> check_csr_privilege(c, csr), val |-> Zero]
        ELSE CASE csr = \h100 -> Okv(sstatus(c))
               [] csr = \h104 -> Okv(sie(c))
               [] csr = \h105 -> Okv(c.stvec)
               [] csr = \h140 -> Okv(c.sscratch)
               [] csr = \h141 -> Okv(c.sepc)
               [] csr = \h142 -> Okv(c.scause)
               [] csr = \h143 -> Okv(c.stval)
               [] csr = \h144 -> Okv(sip(c))
               [] csr = \h180 -> Okv(c.satp)
               [] csr = \hF11 -> Okv(Zero)
               [] csr = \hF12 -> Okv(Zero)
               [] csr = \hF13 -> Okv(Zero)
               [] csr = \hF14 -> Okv(c.mhartid)
               [] csr = \h300 -> Okv(c.mstatus)
               [] csr = \h301 -> Okv(MISA)
               [] csr = \h302 -> Okv(c.medeleg)
               [] csr = \h303 -> Okv(c.mideleg)
               [] csr = \h304 -> Okv(c.mie)
               [] csr = \h305 -> Okv(c.mtvec)
               [] csr = \h340 -> Okv(c.mscratch)
               [] csr = \h341 -> Okv(c.mepc)
               [] csr = \h342 -> Okv(c.mcause)
               [] csr = \h343 -> Okv(c.mtval)
               [] csr = \h344 -> Okv(c.mip)
               [] csr = \hB00 -> Okv(c.cycle)
               [] csr = \hB02 -> Okv(c.time)
               [] csr = \hC00 -> Okv(c.cycle)
               [] csr = \hC01 -> Okv(c.time)
               [] csr = \hC02 -> Okv(c.cycle)
               [] csr = \h3A0 -> Okv(c.pmpcfg0)
               [] csr = \h3B0 -> Okv(c.pmpaddr0)
               [] OTHER -> [err |-> "UnsupportedRead", val |-> Zero]

\* A write mask that lets every bit of mstatus through.
MstatusAllWritable == Bits64

\* A write mask that lets every bit of mip through.
MipAllWritable == Bits64

\* SIE, MIE, SPIE, MPIE, SPP, MPP, MPRV, SUM, MXR
MSTATUS_WRITABLE == {1, 3, 5, 7, 8, 11, 12, 17, 18, 19}

\* SSIP, MSIP
MIP_WRITABLE == {1, 3}

\* CsrFile::write with two of its rules switchable: keep_bit0 stores bit 0
\* of a value written to sepc or mepc, refuse_read_only sends a write to a
\* read-only CSR on to the match instead of dropping it.
write_with(c, csr, value, keep_bit0, refuse_read_only) ==
    LET Okc(n) == [err |-> "Ok", csr |-> n]
    IN  IF check_csr_privilege(c, csr) # "Ok"
        THEN [err |-> check_csr_privilege(c, csr), csr |-> c]
        ELSE IF csr \div 1024 = 3 /\ ~refuse_read_only THEN Okc(c)
        ELSE CASE csr = \h100 -> Okc(write_sstatus(c, value))
               [] csr = \h104 -> Okc(write_sie(c, value))
               [] csr = \h105 -> Okc([c EXCEPT !.stvec = value])
               [] csr = \h140 -> Okc([c EXCEPT !.sscratch = value])
               [] csr = \h141 ->
                    Okc([c EXCEPT !.sepc = IF keep_bit0 THEN value ELSE And(value, Not(Bit(0)))])
               [] csr = \h142 -> Okc([c EXCEPT !.scause = value])
               [] csr = \h143 -> Okc([c EXCEPT !.stval = value])
               [] csr = \h144 -> Okc(write_sip(c, value))
               [] csr = \h180 ->
                    IF Shr(value, 60) = Zero
                    THEN Okc([c EXCEPT !.satp = value])
                    ELSE Okc(c)
               [] csr = \h300 ->
                    Okc([c EXCEPT !.mstatus =
                            Or(And(c.mstatus, Not(MSTATUS_WRITABLE)),
                               And(value, MSTATUS_WRITABLE))])
               [] csr = \h302 -> Okc([c EXCEPT !.medeleg = value])
               [] csr = \h303 -> Okc([c EXCEPT !.mideleg = value])
               [] csr = \h304 -> Okc([c EXCEPT !.mie = value])
               [] csr = \h305 -> Okc([c EXCEPT !.mtvec = value])
               [] csr = \h340 -> Okc([c EXCEPT !.mscratch = value])
               [] csr = \h341 ->
                    Okc([c EXCEPT !.mepc = IF keep_bit0 THEN value ELSE And(value, Not(Bit(0)))])
               [] csr = \h342 -> Okc([c EXCEPT !.mcause = value])
               [] csr = \h343 -> Okc([c EXCEPT !.mtval = value])
               [] csr = \h344 ->
                    Okc([c EXCEPT !.mip =
                            Or(And(c.mip, Not(MIP_WRITABLE)),
                               And(value, MIP_WRITABLE))])
               [] csr = \h3A0 -> Okc([c EXCEPT !.pmpcfg0 = And(value, 0..7)])
               [] csr = \h3B0 -> Okc([c EXCEPT !.pmpaddr0 = value])
               [] OTHER -> [err |-> "UnsupportedWrite", csr |-> c]

\* CsrFile::write that stores sepc and mepc unmasked.
write_epc_unmasked(c, csr, value) == write_with(c, csr, value, TRUE, FALSE)

\* CsrFile::write without the early return for read-only CSRs.
write_read_only_refused(c, csr, value) == write_with(c, csr, value, FALSE, TRUE)

\* CsrFile::write; [err |-> "Ok", csr |-> the file after the write] or
\* [err |-> CsrError variant, csr |-> the file unchanged].
write(c, csr, value) ==
    LET Okc(n) == [err |-> "Ok", csr |-> n]
    IN  IF check_csr_privilege(c, csr) # "Ok"
        THEN [err |-> check_csr_privilege(c, csr), csr |-> c]
        ELSE IF csr \div 1024 = 3 THEN Okc(c)
        ELSE CASE csr = \h100 -> Okc(write_sstatus(c, value))
               [] csr = \h104 -> Okc(write_sie(c, value))
               [] csr = \h105 -> Okc([c EXCEPT !.stvec = value])
               [] csr = \h140 -> Okc([c EXCEPT !.sscratch = value])
               [] csr = \h141 -> Okc([c EXCEPT !.sepc = And(value, Not(Bit(0)))])
               [] csr = \h142 -> Okc([c EXCEPT !.scause = value])
               [] csr = \h143 -> Okc([c EXCEPT !.stval = value])
               [] csr = \h144 -> Okc(write_sip(c, value))
               [] csr = \h180 ->
                    IF Shr(value, 60) = Zero
                    THEN Okc([c EXCEPT !.satp = value])
                    ELSE Okc(c)
               [] csr = \h300 ->
                    Okc([c EXCEPT !.mstatus =
                            Or(And(c.mstatus, Not(MSTATUS_WRITABLE)),
                               And(value, MSTATUS_WRITABLE))])
               [] csr = \h302 -> Okc([c EXCEPT !.medeleg = value])
               [] csr = \h303 -> Okc([c EXCEPT !.mideleg = value])
               [] csr = \h304 -> Okc([c EXCEPT !.mie = value])
               [] csr = \h305 -> Okc([c EXCEPT !.mtvec = value])
               [] csr = \h340 -> Okc([c EXCEPT !.mscratch = value])
               [] csr = \h341 -> Okc([c EXCEPT !.mepc = And(value, Not(Bit(0)))])
               [] csr = \h342 -> Okc([c EXCEPT !.mcause = value])
               [] csr = \h343 -> Okc([c EXCEPT !.mtval = value])
               [] csr = \h344 ->
                    Okc([c EXCEPT !.mip =
                            Or(And(c.mip, Not(MIP_WRITABLE)),
                               And(value, MIP_WRITABLE))])
               [] csr = \h3A0 -> Okc([c EXCEPT !.pmpcfg0 = And(value, 0..7)])
               [] csr = \h3B0 -> Okc([c EXCEPT !.pmpaddr0 = value])
               [] OTHER -> [err |-> "UnsupportedWrite", csr |-> c]

\* CsrFile::set_bits
set_bits(c, csr, mask) ==
    LET Modify(current) ==
            IF current.err # "Ok" THEN [err |-> current.err, csr |-> c]
            ELSE write(c, csr, Or(current.val, mask))
    IN  Modify(read(c, csr))

\* CsrFile::clear_bits
clear_bits(c, csr, mask) ==
    LET Modify(current) ==
            IF current.err # "Ok" THEN [err |-> current.err, csr |-> c]
            ELSE write(c, csr, And(current.val, Not(mask)))
    IN  Modify(read(c, csr))

\* interrupts_enabled with Supervisor mode treated like User mode: always on.
interrupts_enabled_below_machine(c) ==
    IF c.priv_mode = Machine THEN And(c.mstatus, MSTATUS_MIE) # Zero ELSE TRUE

\* The global interrupt enable for the current privilege level
\* (the match on priv_mode inside check_pending_interrupt).
interrupts_enabled(c) ==
    CASE c.priv_mode = Machine -> And(c.mstatus, MSTATUS_MIE) # Zero
      [] c.priv_mode = Supervisor -> And(c.mstatus, MSTATUS_SIE) # Zero
      [] OTHER -> TRUE

None == 255

\* check_pending_interrupt with the timer tested before the software
\* interrupt at each level.
check_pending_interrupt_timer_first(c) ==
    LET pending_enabled == And(c.mip, c.mie)
    IN  IF pending_enabled = Zero THEN None
        ELSE IF ~interrupts_enabled(c) THEN None
        ELSE IF And(pending_enabled, Bit(11)) # Zero THEN 11
        ELSE IF And(pending_enabled, Bit(7)) # Zero THEN 7
        ELSE IF And(pending_enabled, Bit(3)) # Zero THEN 3
        ELSE IF And(pending_enabled, Bit(9)) # Zero THEN 9
        ELSE IF And(pending_enabled, Bit(5)) # Zero THEN 5
        ELSE IF And(pending_enabled, Bit(1)) # Zero THEN 1
        ELSE None

\* CsrFile::check_pending_interrupt; the cause, or None.
check_pending_interrupt(c) ==
    LET pending_enabled == And(c.mip, c.mie)
    IN  IF pending_enabled = Zero THEN None
        ELSE IF ~interrupts_enabled(c) THEN None
        ELSE IF And(pending_enabled, Bit(11)) # Zero THEN 11
        ELSE IF And(pending_enabled, Bit(3)) # Zero THEN 3
        ELSE IF And(pending_enabled, Bit(7)) # Zero THEN 7
        ELSE IF And(pending_enabled, Bit(9)) # Zero THEN 9
        ELSE IF And(pending_enabled, Bit(1)) # Zero THEN 1
        ELSE IF And(pending_enabled, Bit(5)) # Zero THEN 5
        ELSE None

\* CsrFile::set_timer_interrupt
set_timer_interrupt(c, is_machine) ==
    IF is_machine THEN [c EXCEPT !.mip = Or(c.mip, Bit(7))]
    ELSE [c EXCEPT !.mip = Or(c.mip, Bit(5))]

\* CsrFile::clear_timer_interrupt
clear_timer_interrupt(c, is_machine) ==
    IF is_machine THEN [c EXCEPT !.mip = And(c.mip, Not(Bit(7)))]
    ELSE [c EXCEPT !.mip = And(c.mip, Not(Bit(5)))]

\* ------------------------------------------------------------------------
\* Trap (src/src/cpu/trap.rs)
\* ------------------------------------------------------------------------

\* A Trap value: the variant, its pc and its payload (inst or addr, else 0).
MkTrap(kind, pc, info) == [kind |-> kind, pc |-> pc, info |-> info]

\* No trap was raised.
NoTrap == MkTrap("NoTrap", Zero, Zero)

InterruptKinds ==
    {"MachineSoftwareInterrupt", "MachineTimerInterrupt",
     "MachineExternalInterrupt", "SupervisorSoftwareInterrupt",
     "SupervisorTimerInterrupt", "SupervisorExternalInterrupt"}

\* Trap::cause
cause(trap) ==
    CASE trap.kind = "IllegalInstruction" -> 2
      [] trap.kind = "Breakpoint" -> 3
      [] trap.kind = "LoadMisaligned" -> 4
      [] trap.kind = "StoreMisaligned" -> 6
      [] trap.kind = "EcallFromS" -> 9
      [] trap.kind = "EcallFromM" -> 11
      [] trap.kind = "Ecall" -> 8
      [] trap.kind = "InstructionPageFault" -> 12
      [] trap.kind = "LoadPageFault" -> 13
      [] trap.kind = "StorePageFault" -> 15
      [] trap.kind = "Mem" -> 5
      [] trap.kind = "SupervisorSoftwareInterrupt" -> 1
      [] trap.kind = "MachineSoftwareInterrupt" -> 3
      [] trap.kind = "SupervisorTimerInterrupt" -> 5
      [] trap.kind = "MachineTimerInterrupt" -> 7
      [] trap.kind = "SupervisorExternalInterrupt" -> 9
      [] trap.kind = "MachineExternalInterrupt" -> 11

\* Trap::is_interrupt
is_interrupt(trap) == trap.kind \in InterruptKinds

\* Trap::tval
tval(trap) ==
    IF trap.kind \in {"IllegalInstruction", "LoadMisaligned", "StoreMisaligned",
                      "InstructionPageFault", "LoadPageFault", "StorePageFault"}
    THEN trap.info
    ELSE Zero

\* WithPc for Result<T, CsrError>: every CSR error is IllegalInstruction, inst 0.
CsrErrorTrap(pc) == MkTrap("IllegalInstruction", pc, Zero)

\* WithPc for DecodeError with the encoding dropped.
DecodeErrorTrapNoEncoding(pc, inst) == MkTrap("IllegalInstruction", pc, Zero)

\* WithPc for Result<T, DecodeError>: the trap carries the encoding.
DecodeErrorTrap(pc, inst) == MkTrap("IllegalInstruction", pc, inst)

\* WithPc for Result<T, MemError>, MemError::Oob arm.
MemErrorTrap(pc) == MkTrap("Mem", pc, Zero)

\* ------------------------------------------------------------------------
\* decode (src/src/cpu/decode.rs)
\* ------------------------------------------------------------------------

\* An Instr value: the variant and its payload; fields a variant does not
\* have are zero.  imm holds imm / off, shamt holds shamt / uimm.
MkInstr(op, rd, rs1, rs2, imm, shamt, csr) ==
    [op |-> op, rd |-> rd, rs1 |-> rs1, rs2 |-> rs2, imm |-> imm,
     shamt |-> shamt, csr |-> csr]

\* DecodeError::InvalidOpcode
InvalidOpcode == MkInstr("InvalidOpcode", 0, 0, 0, Zero, 0, 0)

RType(op, inst) ==
    MkInstr(op, Field(inst, 7, 5), Field(inst, 15, 5), Field(inst, 20, 5), Zero, 0, 0)

IType(op, inst) ==
    MkInstr(op, Field(inst, 7, 5), Field(inst, 15, 5), 0,
            sign_extend(Shr(inst, 20), 12), 0, 0)

ShiftType(op, inst, bits) ==
    MkInstr(op, Field(inst, 7, 5), Field(inst, 15, 5), 0, Zero,
            Field(sign_extend(Shr(inst, 20), 12), 0, bits), 0)

SType(op, inst) ==
    MkInstr(op, 0, Field(inst, 15, 5), Field(inst, 20, 5),
            sign_extend(Or(Shl(FromNat(Field(inst, 25, 7)), 5),
                           FromNat(Field(inst, 7, 5))), 12), 0, 0)

BType(op, inst) ==
    MkInstr(op, 0, Field(inst, 15, 5), Field(inst, 20, 5),
            sign_extend(Or(Or(Shl(FromNat(Field(inst, 31, 1)), 12),
                              Shl(FromNat(Field(inst, 7, 1)), 11)),
                           Or(Shl(FromNat(Field(inst, 25, 6)), 5),
                              Shl(FromNat(Field(inst, 8, 4)), 1))), 13), 0, 0)

UType(op, inst) ==
    MkInstr(op, Field(inst, 7, 5), 0, 0, sign_extend(And(inst, 12..31), 32), 0, 0)

JType(op, inst) ==
    MkInstr(op, Field(inst, 7, 5), 0, 0,
            sign_extend(Or(Or(Shl(FromNat(Field(inst, 31, 1)), 20),
                              Shl(FromNat(Field(inst, 12, 8)), 12)),
                           Or(Shl(FromNat(Field(inst, 20, 1)), 11),
                              Shl(FromNat(Field(inst, 21, 10)), 1))), 21), 0, 0)

CsrType(op, inst) ==
    MkInstr(op, Field(inst, 7, 5), Field(inst, 15, 5), 0, Zero,
            Field(inst, 15, 5), Field(inst, 20, 12))

\* decode; the Instr, or InvalidOpcode for Err(DecodeError::InvalidOpcode).
decode(inst) ==
    LET Match(opcode, funct3, funct7, imm) ==
        CASE opcode = \b0110011 ->
               (CASE funct3 = 0 /\ funct7 = \h00 -> RType("Add", inst)
                  [] funct3 = 0 /\ funct7 = \h20 -> RType("Sub", inst)
                  [] funct3 = 4 /\ funct7 = \h00 -> RType("Xor", inst)
                  [] funct3 = 6 /\ funct7 = \h00 -> RType("Or", inst)
                  [] funct3 = 7 /\ funct7 = \h00 -> RType("And", inst)
                  [] funct3 = 1 /\ funct7 = \h00 -> RType("Sll", inst)
                  [] funct3 = 5 /\ funct7 = \h00 -> RType("Srl", inst)
                  [] funct3 = 5 /\ funct7 = \h20 -> RType("Sra", inst)
                  [] funct3 = 2 /\ funct7 = \h00 -> RType("Slt", inst)
                  [] funct3 = 3 /\ funct7 = \h00 -> RType("Sltu", inst)
                  [] OTHER -> InvalidOpcode)
          [] opcode = \b0010011 ->
               (CASE funct3 = 0 -> IType("Addi", inst)
                  [] funct3 = 4 -> IType("Xori", inst)
                  [] funct3 = 6 -> IType("Ori", inst)
                  [] funct3 = 7 -> IType("Andi", inst)
                  [] funct3 = 1 -> ShiftType("Slli", inst, 6)
                  [] funct3 = 5 ->
                       (CASE Field(imm, 6, 7) = \h00 -> ShiftType("Srli", inst, 6)
                          [] Field(imm, 6, 7) = \h20 -> ShiftType("Srai", inst, 6)
                          [] OTHER -> InvalidOpcode)
                  [] funct3 = 2 -> IType("Slti", inst)
                  [] funct3 = 3 -> IType("Sltiu", inst)
                  [] OTHER -> InvalidOpcode)
          [] opcode = \b0000011 ->
               (CASE funct3 = 0 -> IType("LB", inst)
                  [] funct3 = 4 -> IType("LBU", inst)
                  [] funct3 = 1 -> IType("LH", inst)
                  [] funct3 = 5 -> IType("LHU", inst)
                  [] funct3 = 2 -> IType("LW", inst)
                  [] funct3 = 6 -> IType("LWU", inst)
                  [] funct3 = 3 -> IType("LD", inst)
                  [] OTHER -> InvalidOpcode)
          [] opcode = \b0100011 ->
               (CASE funct3 = 0 -> SType("SB", inst)
                  [] funct3 = 1 -> SType("SH", inst)
                  [] funct3 = 2 -> SType("SW", inst)
                  [] funct3 = 3 -> SType("SD", inst)
                  [] OTHER -> InvalidOpcode)
          [] opcode = \b1100011 ->
               (CASE funct3 = 0 -> BType("Beq", inst)
                  [] funct3 = 1 -> BType("Bne", inst)
                  [] funct3 = 4 -> BType("Blt", inst)
                  [] funct3 = 5 -> BType("Bge", inst)
                  [] funct3 = 6 -> BType("Bltu", inst)
                  [] funct3 = 7 -> BType("Bgeu", inst)
                  [] OTHER -> InvalidOpcode)
          [] opcode = \b0110111 -> UType("Lui", inst)
          [] opcode = \b0010111 -> UType("Auipc", inst)
          [] opcode = \b1101111 -> JType("Jal", inst)
          [] opcode = \b1100111 ->
               (IF funct3 = 0 THEN IType("Jalr", inst) ELSE InvalidOpcode)
          [] opcode = \b1110011 ->
               (CASE funct3 = 0 ->
                       (CASE Field(inst, 20, 12) = \h000 ->
                               MkInstr("Ecall", 0, 0, 0, Zero, 0, 0)
                          [] Field(inst, 20, 12) = \h001 ->
                               MkInstr("Ebreak", 0, 0, 0, Zero, 0, 0)
                          [] Field(inst, 20, 12) = \h302 ->
                               MkInstr("Mret", 0, 0, 0, Zero, 0, 0)
                          [] OTHER -> InvalidOpcode)
                  [] funct3 = 1 -> CsrType("Csrrw", inst)
                  [] funct3 = 2 -> CsrType("Csrrs", inst)
                  [] funct3 = 3 -> CsrType("Csrrc", inst)
                  [] funct3 = 5 -> CsrType("Csrrwi", inst)
                  [] funct3 = 6 -> CsrType("Csrrsi", inst)
                  [] funct3 = 7 -> CsrType("Csrrci", inst)
                  [] OTHER -> InvalidOpcode)
          [] opcode = \b0011011 ->
               (CASE funct3 = 0 -> IType("Addiw", inst)
                  [] funct3 = 1 ->
                       (IF Field(imm, 5, 7) = \h00
                        THEN ShiftType("Slliw", inst, 5) ELSE InvalidOpcode)
                  [] funct3 = 5 ->
                       (CASE Field(imm, 5, 7) = \h00 -> ShiftType("Srliw", inst, 5)
                          [] Field(imm, 5, 7) = \h20 -> ShiftType("Sraiw", inst, 5)
                          [] OTHER -> InvalidOpcode)
                  [] OTHER -> InvalidOpcode)
          [] opcode = \b0111011 ->
               (CASE funct3 = 0 /\ funct7 = \h00 -> RType("Addw", inst)
                  [] funct3 = 0 /\ funct7 = \h20 -> RType("Subw", inst)
                  [] funct3 = 1 /\ funct7 = \h00 -> RType("Sllw", inst)
                  [] funct3 = 5 /\ funct7 = \h00 -> RType("Srlw", inst)
                  [] funct3 = 5 /\ funct7 = \h20 -> RType("Sraw", inst)
                  [] OTHER -> InvalidOpcode)
          [] opcode = \b0001111 -> MkInstr("Fence", 0, 0, 0, Zero, 0, 0)
          [] OTHER -> InvalidOpcode
    IN  Match(Field(inst, 0, 7), Field(inst, 12, 3), Field(inst, 25, 7),
              sign_extend(Shr(inst, 20), 12))

\* ------------------------------------------------------------------------
\* Memory (src/src/mem/mod.rs)
\* ------------------------------------------------------------------------

\* Size of the RAM in bytes (the argument of Machine::new).
RamBytes == 80

\* Memory::base, 0x8000_0000
MemBase == Bit(31)

\* Memory::new: data = vec![0; bytes]
MemoryNew == [i \in 0..(RamBytes - 1) |-> 0]

\* Memory::check_oob; the offset into data, or -1 for Err(MemError::Oob).
check_oob(addr, size) ==
    IF LtU(addr, MemBase) THEN -1
    ELSE LET Offset(a) ==
                 IF a \cap (12..63) # {} THEN -1
                 ELSE IF ToNat(a) + size > RamBytes THEN -1
                 ELSE ToNat(a)
         IN  Offset(wrapping_sub(addr, MemBase))

RECURSIVE LeBytes(_, _, _)
\* u64::from_le_bytes over data[off .. off + size]
LeBytes(data, off, size) ==
    IF size = 0 THEN Zero
    ELSE Or(FromNat(data[off]), Shl(LeBytes(data, off + 1, size - 1), 8))

\* Memory::read_u8_phys / read_u16_phys / read_u32_phys / read_u64_phys
read_phys(data, paddr, size) ==
    LET At(off) ==
            IF off = -1 THEN [ok |-> FALSE, val |-> Zero]
            ELSE [ok |-> TRUE, val |-> LeBytes(data, off, size)]
    IN  At(check_oob(paddr, size))

\* Memory::write_u8_phys / write_u16_phys / write_u32_phys / write_u64_phys:
\* the size low bytes of v, little-endian.
write_phys(data, paddr, size, v) ==
    LET At(off) ==
            IF off = -1 THEN [ok |-> FALSE, data |-> data]
            ELSE [ok |-> TRUE,
                  data |-> [i \in 0..(RamBytes - 1) |->
                              IF i >= off /\ i < off + size
                              THEN Field(v, 8 * (i - off), 8)
                              ELSE data[i]]]
    IN  At(check_oob(paddr, size))

RECURSIVE sv39_walk(_, _, _, _, _, _, _)
\* The Sv39 walk from the page table at physical address table, at level
\* 2, 1 or 0: load the entry at table + VPN[level] * 8; fault when V is
\* clear or R = 0 with W = 1; a leaf (R, W or X set) is checked against the
\* access (fetch needs X, store needs W, load needs R; User mode needs U, a
\* U page is refused to Supervisor mode) and yields its page number, the
\* low level * 9 bits of it taken from vaddr, over the 12-bit offset; a
\* pointer descends, and faults at level 0.  mstatus is no argument of
\* the translation, so SUM and MXR are taken as clear; A and D are not
\* required.
sv39_walk(data, vaddr, table, level, is_fetch, is_write, priv_mode) ==
    LET low == 0..(9 * level - 1)
        MmuFault == [ok |-> FALSE, paddr |-> vaddr]
        PtePpn(pte) == Shr(pte, 10) \cap (0..43)
        Leaf(pte) ==
            IF \/ is_fetch /\ 3 \notin pte
               \/ is_write /\ 2 \notin pte
               \/ ~is_fetch /\ ~is_write /\ 1 \notin pte
               \/ priv_mode = User /\ 4 \notin pte
               \/ priv_mode = Supervisor /\ 4 \in pte
            THEN MmuFault
            ELSE [ok |-> TRUE,
                  paddr |-> Or(Shl(Or(PtePpn(pte) \ low, Shr(vaddr, 12) \cap low), 12),
                               vaddr \cap (0..11))]
        Loaded(got) ==
            IF ~got.ok THEN MmuFault
            ELSE IF 0 \notin got.val \/ (1 \notin got.val /\ 2 \in got.val)
            THEN MmuFault
            ELSE IF got.val \cap {1, 2, 3} # {} THEN Leaf(got.val)
            ELSE IF level = 0 THEN MmuFault
            ELSE sv39_walk(data, vaddr, Shl(PtePpn(got.val), 12), level - 1,
                           is_fetch, is_write, priv_mode)
    IN  Loaded(read_phys(data, wrapping_add(table, FromNat(8 * Field(vaddr, 12 + 9 * level, 9))), 8))

\* Mmu::translate (crate::mmu, which src/ does not hold): the address
\* unchanged when satp.mode is bare or the access is made in Machine mode,
\* the Sv39 walk from the root table at satp.ppn << 12 otherwise.
mmu_translate(vaddr, satp, is_fetch, is_write, priv_mode, data) ==
    IF Shr(satp, 60) = Zero \/ priv_mode = Machine
    THEN [ok |-> TRUE, paddr |-> vaddr]
    ELSE sv39_walk(data, vaddr, Shl(satp \cap (0..43), 12), 2,
                   is_fetch, is_write, priv_mode)

\* Memory::translate_addr: any Mmu failure becomes MemError::Oob(vaddr).
translate_addr(vaddr, satp, is_fetch, is_write, priv_mode, data) ==
    mmu_translate(vaddr, satp, is_fetch, is_write, priv_mode, data)

\* Memory::read_u8 / read_u16 / read_u32 / read_u64
mem_read(data, vaddr, size, satp, priv_mode) ==
    LET Translated(t) ==
            IF ~t.ok THEN [ok |-> FALSE, val |-> Zero]
            ELSE read_phys(data, t.paddr, size)
    IN  Translated(translate_addr(vaddr, satp, FALSE, FALSE, priv_mode, data))

\* Memory::write_u8 / write_u16
mem_write(data, vaddr, size, v, satp, priv_mode) ==
    LET Translated(t) ==
            IF ~t.ok THEN [ok |-> FALSE, data |-> data]
            ELSE write_phys(data, t.paddr, size, v)
    IN  Translated(translate_addr(vaddr, satp, FALSE, TRUE, priv_mode, data))

\* ------------------------------------------------------------------------
\* execute (src/src/cpu/exec.rs)
\* ------------------------------------------------------------------------

\* Cpu::default(): registers, pc and CSR file zero, privilege Machine.
CpuDefault == [regs |-> [i \in 0..31 |-> Zero], pc |-> Zero, csr |-> CsrFileDefault]

\* host_exit_addr = None
NoHostExit == {-1}

\* The closure r of execute: the value of register idx.
r(c, idx) == c.regs[idx]

\* w without the test of idx: a write to x0 lands.
w_unguarded(c, idx, val) == [c EXCEPT !.regs[idx] = val]

\* The closure w of execute: write register idx, x0 hardwired.
w(c, idx, val) ==
    IF idx # 0 THEN [c EXCEPT !.regs[idx] = val] ELSE c

Four == Bit(2)

\* cpu.pc = pc.wrapping_add(4)
Advance(c, pc) == [c EXCEPT !.pc = wrapping_add(pc, Four)]

\* The tail of execute: cpu.regs[0] = 0; Ok(())
Pin0(c) == [c EXCEPT !.regs[0] = Zero]

\* The value execute returns, with the Cpu and the memory it leaves:
\* Ok(()), Err(Trapped(trap)) or Err(Halt(HostExit {code, gp})).  flush
\* tells whether the arm called mmu.flush_tlb.
ExecOk(c, data) ==
    [res |-> "Ok", cpu |-> Pin0(c), data |-> data, trap |-> NoTrap,
     code |-> Zero, gp |-> Zero, flush |-> FALSE]

ExecReturnOk(c, data) ==
    [res |-> "Ok", cpu |-> c, data |-> data, trap |-> NoTrap,
     code |-> Zero, gp |-> Zero, flush |-> FALSE]

ExecTrapped(c, data, trap) ==
    [res |-> "Trapped", cpu |-> c, data |-> data, trap |-> trap,
     code |-> Zero, gp |-> Zero, flush |-> FALSE]

ExecHalt(c, data, code, gp) ==
    [res |-> "Halt", cpu |-> c, data |-> data, trap |-> NoTrap,
     code |-> code, gp |-> gp, flush |-> FALSE]

\* v as u32 / v & 0xffff_ffff
Low32(v) == v \cap Bits32

\* i64 >> n (arithmetic) on a value whose sign bit is bit (width - 1)
Sra(v, n, width) ==
    LET x == v \cap (0..(width - 1))
    IN  IF (width - 1) \in x
        THEN ({i - n : i \in x} \cap (0..(width - 1))) \cup ((width - 1 - n)..(width - 1))
        ELSE {i - n : i \in x} \cap (0..(width - 1))

RECURSIVE udivrem(_, _, _, _, _)
\* u64::wrapping_div and u64::wrapping_rem for a non-zero divisor d, by
\* restoring division over the bits hi down to lo of n; s holds the
\* quotient q and the remainder r collected from the bits above hi.  A
\* range of several bits is done in two halves, the upper one first, and
\* the state it leaves is computed before the lower half is entered.
udivrem(n, d, hi, lo, s) ==
    IF hi = lo
    THEN LET Next1(over, r1) ==
                 IF over \/ ~LtU(r1, d)
                 THEN [q |-> s.q \cup {hi}, r |-> wrapping_sub(r1, d)]
                 ELSE [q |-> s.q, r |-> r1]
         IN  Next1(63 \in s.r, Or(Shl(s.r, 1), IF hi \in n THEN Bit(0) ELSE Zero))
    ELSE CHOOSE t \in { udivrem(n, d, (hi + lo) \div 2, lo, u) :
                          u \in {udivrem(n, d, hi, (hi + lo) \div 2 + 1, s)} } : TRUE

\* Div, Divu, Rem and Remu with a zero divisor giving zero.
DivRemZeroOnZero(op, a, b) ==
    LET Neg(v) == wrapping_sub(Zero, v)
        Abs(v) == IF 63 \in v THEN Neg(v) ELSE v
        Quot(q) == IF (63 \in a) # (63 \in b) THEN Neg(q) ELSE q
        Rest(m) == IF 63 \in a THEN Neg(m) ELSE m
        U(n, d) == udivrem(n, d, 63, 0, [q |-> Zero, r |-> Zero])
    IN  CASE b = Zero -> Zero
          [] op = "Div" ->
               IF a = Bit(63) /\ b = AllOnes THEN Bit(63)
               ELSE Quot(U(Abs(a), Abs(b)).q)
          [] op = "Divu" -> U(a, b).q
          [] op = "Rem" ->
               IF a = Bit(63) /\ b = AllOnes THEN Zero
               ELSE Rest(U(Abs(a), Abs(b)).r)
          [] op = "Remu" -> U(a, b).r

\* The Div, Divu, Rem and Remu arms of execute: the result for dividend a
\* and divisor b.  i64::wrapping_div truncates toward zero and
\* i64::wrapping_rem takes the sign of the dividend.
DivRem(op, a, b) ==
    LET Neg(v) == wrapping_sub(Zero, v)
        Abs(v) == IF 63 \in v THEN Neg(v) ELSE v
        Quot(q) == IF (63 \in a) # (63 \in b) THEN Neg(q) ELSE q
        Rest(m) == IF 63 \in a THEN Neg(m) ELSE m
        U(n, d) == udivrem(n, d, 63, 0, [q |-> Zero, r |-> Zero])
    IN  CASE op = "Div" ->
               IF b = Zero THEN AllOnes
               ELSE IF a = Bit(63) /\ b = AllOnes THEN Bit(63)
               ELSE Quot(U(Abs(a), Abs(b)).q)
          [] op = "Divu" ->
               IF b = Zero THEN AllOnes ELSE U(a, b).q
          [] op = "Rem" ->
               IF b = Zero THEN a
               ELSE IF a = Bit(63) /\ b = AllOnes THEN Zero
               ELSE Rest(U(Abs(a), Abs(b)).r)
          [] op = "Remu" ->
               IF b = Zero THEN a ELSE U(a, b).r

\* The register-register and register-immediate ALU results.
Alu(op, a, b) ==
    CASE op \in {"Add", "Addi"} -> wrapping_add(a, b)
      [] op = "Sub" -> wrapping_sub(a, b)
      [] op \in {"Div", "Divu", "Rem", "Remu"} -> DivRem(op, a, b)
      [] op \in {"Xor", "Xori"} -> (a \ b) \cup (b \ a)
      [] op \in {"Or", "Ori"} -> Or(a, b)
      [] op \in {"And", "Andi"} -> And(a, b)
      [] op \in {"Sll", "Slli"} -> Shl(a, Field(b, 0, 6))
      [] op \in {"Srl", "Srli"} -> Shr(a, Field(b, 0, 6))
      [] op \in {"Sra", "Srai"} -> Sra(a, Field(b, 0, 6), 64)
      [] op \in {"Slt", "Slti"} -> IF LtS(a, b) THEN Bit(0) ELSE Zero
      [] op \in {"Sltu", "Sltiu"} -> IF LtU(a, b) THEN Bit(0) ELSE Zero
      [] op \in {"Addiw", "Addw"} -> sign_extend(wrapping_add(a, b), 32)
      [] op = "Subw" -> sign_extend(wrapping_sub(a, b), 32)
      [] op \in {"Slliw", "Sllw"} -> sign_extend(Shl(Low32(a), Field(b, 0, 5)), 32)
      [] op \in {"Srliw", "Srlw"} -> sign_extend(Shr(Low32(a), Field(b, 0, 5)), 32)
      [] op \in {"Sraiw", "Sraw"} -> sign_extend(Sra(a, Field(b, 0, 5), 32), 32)

RegRegOps ==
    {"Add", "Sub", "Xor", "Or", "And", "Sll", "Srl", "Sra", "Slt", "Sltu",
     "Div", "Divu", "Rem", "Remu",
     "Addw", "Subw", "Sllw", "Srlw", "Sraw"}

RegImmOps == {"Addi", "Xori", "Ori", "Andi", "Slti", "Sltiu", "Addiw"}

ShiftImmOps == {"Slli", "Srli", "Srai", "Slliw", "Srliw", "Sraiw"}

BranchOps == {"Beq", "Bne", "Blt", "Bge", "Bltu", "Bgeu"}

LoadOps == {"LB", "LBU", "LH", "LHU", "LW", "LWU", "LD"}

CsrOps == {"Csrrw", "Csrrs", "Csrrc", "Csrrwi", "Csrrsi", "Csrrci"}

\* The branch conditions.
Taken(op, a, b) ==
    CASE op = "Beq" -> a = b
      [] op = "Bne" -> a # b
      [] op = "Blt" -> LtS(a, b)
      [] op = "Bge" -> ~LtS(a, b)
      [] op = "Bltu" -> LtU(a, b)
      [] op = "Bgeu" -> ~LtU(a, b)

\* Width in bytes of a load or store.
AccessSize(op) ==
    CASE op \in {"LB", "LBU", "SB"} -> 1
      [] op \in {"LH", "LHU", "SH"} -> 2
      [] op \in {"LW", "LWU", "SW"} -> 4
      [] op \in {"LD", "SD"} -> 8

\* The loads: read through translation, extend, write rd.
ExecLoad(c, data, instr, pc) ==
    LET addr == wrapping_add(r(c, instr.rs1), instr.imm)
        size == AccessSize(instr.op)
        Loaded(got) ==
            IF ~got.ok THEN ExecTrapped(c, data, MemErrorTrap(pc))
            ELSE ExecOk(Advance(w(c, instr.rd,
                                  IF instr.op \in {"LB", "LH", "LW"}
                                  THEN sign_extend(got.val, 8 * size)
                                  ELSE got.val), pc), data)
    IN  Loaded(mem_read(data, addr, size, c.csr.satp, c.csr.priv_mode))

\* SB and SH: Memory::write_u8 / write_u16 of the truncated source register.
ExecStoreNarrow(c, data, instr, pc) ==
    LET addr == wrapping_add(r(c, instr.rs1), instr.imm)
        size == AccessSize(instr.op)
        value == r(c, instr.rs2) \cap (0..(8 * size - 1))
        Stored(put) ==
            IF ~put.ok THEN ExecTrapped(c, data, MemErrorTrap(pc))
            ELSE ExecOk(Advance(c, pc), put.data)
    IN  Stored(mem_write(data, addr, size, value, c.csr.satp, c.csr.priv_mode))

\* SW and SD with the door halting on every non-zero value, whatever its
\* device and command fields.
ExecStoreWideHaltsOnAny(c, data, instr, pc, host_exit_addr) ==
    LET addr == wrapping_add(r(c, instr.rs1), instr.imm)
        size == AccessSize(instr.op)
        value == r(c, instr.rs2) \cap (0..(8 * size - 1))
        Acked(ack) ==
            IF ~ack.ok THEN ExecTrapped(c, data, MemErrorTrap(pc))
            ELSE ExecReturnOk(Advance(c, pc), ack.data)
        Stored(put) ==
            IF ~put.ok THEN ExecTrapped(c, data, MemErrorTrap(pc))
            ELSE ExecOk(Advance(c, pc), put.data)
        Translated(t) ==
            IF ~t.ok THEN ExecTrapped(c, data, MemErrorTrap(pc))
            ELSE IF host_exit_addr # NoHostExit /\ t.paddr = host_exit_addr
            THEN IF value # Zero
                 THEN ExecHalt(c, data, value, r(c, 3))
                 ELSE Acked(write_phys(data, t.paddr, 8, Zero))
            ELSE Stored(write_phys(data, t.paddr, size, value))
    IN  Translated(translate_addr(addr, c.csr.satp, FALSE, TRUE, c.csr.priv_mode, data))

\* SW and SD with the door compared to the virtual address of the store.
ExecStoreWideVirtualDoor(c, data, instr, pc, host_exit_addr) ==
    LET addr == wrapping_add(r(c, instr.rs1), instr.imm)
        size == AccessSize(instr.op)
        value == r(c, instr.rs2) \cap (0..(8 * size - 1))
        device == Field(value, 56, 8)
        cmd == Field(value, 48, 8)
        Acked(ack) ==
            IF ~ack.ok THEN ExecTrapped(c, data, MemErrorTrap(pc))
            ELSE ExecReturnOk(Advance(c, pc), ack.data)
        Stored(put) ==
            IF ~put.ok THEN ExecTrapped(c, data, MemErrorTrap(pc))
            ELSE ExecOk(Advance(c, pc), put.data)
        Translated(t) ==
            IF ~t.ok THEN ExecTrapped(c, data, MemErrorTrap(pc))
            ELSE IF host_exit_addr # NoHostExit /\ addr = host_exit_addr
            THEN IF device = 0 /\ cmd = 0 /\ value # Zero
                 THEN ExecHalt(c, data, value, r(c, 3))
                 ELSE Acked(write_phys(data, t.paddr, 8, Zero))
            ELSE Stored(write_phys(data, t.paddr, size, value))
    IN  Translated(translate_addr(addr, c.csr.satp, FALSE, TRUE, c.csr.priv_mode, data))

\* SW and SD: translate, compare the physical address to the host-exit
\* door, then halt, acknowledge the packet or store.
ExecStoreWide(c, data, instr, pc, host_exit_addr) ==
    LET addr == wrapping_add(r(c, instr.rs1), instr.imm)
        size == AccessSize(instr.op)
        value == r(c, instr.rs2) \cap (0..(8 * size - 1))
        device == Field(value, 56, 8)
        cmd == Field(value, 48, 8)
        Acked(ack) ==
            IF ~ack.ok THEN ExecTrapped(c, data, MemErrorTrap(pc))
            ELSE ExecReturnOk(Advance(c, pc), ack.data)
        Stored(put) ==
            IF ~put.ok THEN ExecTrapped(c, data, MemErrorTrap(pc))
            ELSE ExecOk(Advance(c, pc), put.data)
        Translated(t) ==
            IF ~t.ok THEN ExecTrapped(c, data, MemErrorTrap(pc))
            ELSE IF host_exit_addr # NoHostExit /\ t.paddr = host_exit_addr
            THEN IF device = 0 /\ cmd = 0 /\ value # Zero
                 THEN ExecHalt(c, data, value, r(c, 3))
                 ELSE Acked(write_phys(data, t.paddr, 8, Zero))
            ELSE Stored(write_phys(data, t.paddr, size, value))
    IN  Translated(translate_addr(addr, c.csr.satp, FALSE, TRUE, c.csr.priv_mode, data))

\* The CSR instructions with the source register read after rd is written.
ExecCsrLateSource(c, data, instr, pc) ==
    LET Src(c1) == IF instr.op \in {"Csrrw", "Csrrs", "Csrrc"}
                   THEN r(c1, instr.rs1) ELSE FromNat(instr.shamt)
        skip == \/ instr.op \in {"Csrrs", "Csrrc"} /\ instr.rs1 = 0
                \/ instr.op \in {"Csrrsi", "Csrrci"} /\ instr.shamt = 0
        WritePhase(c1) ==
            CASE instr.op \in {"Csrrw", "Csrrwi"} -> write(c1.csr, instr.csr, Src(c1))
              [] instr.op \in {"Csrrs", "Csrrsi"} -> set_bits(c1.csr, instr.csr, Src(c1))
              [] instr.op \in {"Csrrc", "Csrrci"} -> clear_bits(c1.csr, instr.csr, Src(c1))
        Written(c1, put) ==
            IF put.err # "Ok" THEN ExecTrapped(c1, data, CsrErrorTrap(pc))
            ELSE [ExecOk(Advance([c1 EXCEPT !.csr = put.csr], pc), data)
                    EXCEPT !.flush = instr.op \in {"Csrrw", "Csrrwi"}
                                     /\ instr.csr = \h180]
        RdWritten(c1) ==
            IF skip THEN ExecOk(Advance(c1, pc), data)
            ELSE Written(c1, WritePhase(c1))
        Read(got) ==
            IF got.err # "Ok" THEN ExecTrapped(c, data, CsrErrorTrap(pc))
            ELSE RdWritten(w(c, instr.rd, got.val))
    IN  Read(read(c.csr, instr.csr))

\* The CSR instructions without the skip of the write phase: Csrrs/Csrrc
\* with rs1 = x0 and Csrrsi/Csrrci with uimm = 0 write the CSR back.
ExecCsrAlwaysWrites(c, data, instr, pc) ==
    LET src == IF instr.op \in {"Csrrw", "Csrrs", "Csrrc"}
               THEN r(c, instr.rs1) ELSE FromNat(instr.shamt)
        WritePhase(c1) ==
            CASE instr.op \in {"Csrrw", "Csrrwi"} -> write(c1.csr, instr.csr, src)
              [] instr.op \in {"Csrrs", "Csrrsi"} -> set_bits(c1.csr, instr.csr, src)
              [] instr.op \in {"Csrrc", "Csrrci"} -> clear_bits(c1.csr, instr.csr, src)
        Written(c1, put) ==
            IF put.err # "Ok" THEN ExecTrapped(c1, data, CsrErrorTrap(pc))
            ELSE [ExecOk(Advance([c1 EXCEPT !.csr = put.csr], pc), data)
                    EXCEPT !.flush = instr.op \in {"Csrrw", "Csrrwi"}
                                     /\ instr.csr = \h180]
        Read(got) ==
            IF got.err # "Ok" THEN ExecTrapped(c, data, CsrErrorTrap(pc))
            ELSE Written(w(c, instr.rd, got.val), WritePhase(w(c, instr.rd, got.val)))
    IN  Read(read(c.csr, instr.csr))

\* The six CSR instructions: capture the source, read the CSR, write rd,
\* then the write phase (skipped by Csrrs/Csrrc with rs1 = x0 and by
\* Csrrsi/Csrrci with uimm = 0).  Only the Csrrw and Csrrwi arms go on to
\* `if csr == 0x180 { mmu.flush_tlb(None) }`.
ExecCsr(c, data, instr, pc) ==
    LET src == IF instr.op \in {"Csrrw", "Csrrs", "Csrrc"}
               THEN r(c, instr.rs1) ELSE FromNat(instr.shamt)
        skip == \/ instr.op \in {"Csrrs", "Csrrc"} /\ instr.rs1 = 0
                \/ instr.op \in {"Csrrsi", "Csrrci"} /\ instr.shamt = 0
        WritePhase(c1) ==
            CASE instr.op \in {"Csrrw", "Csrrwi"} -> write(c1.csr, instr.csr, src)
              [] instr.op \in {"Csrrs", "Csrrsi"} -> set_bits(c1.csr, instr.csr, src)
              [] instr.op \in {"Csrrc", "Csrrci"} -> clear_bits(c1.csr, instr.csr, src)
        Written(c1, put) ==
            IF put.err # "Ok" THEN ExecTrapped(c1, data, CsrErrorTrap(pc))
            ELSE [ExecOk(Advance([c1 EXCEPT !.csr = put.csr], pc), data)
                    EXCEPT !.flush = instr.op \in {"Csrrw", "Csrrwi"}
                                     /\ instr.csr = \h180]
        RdWritten(c1) ==
            IF skip THEN ExecOk(Advance(c1, pc), data)
            ELSE Written(c1, WritePhase(c1))
        Read(got) ==
            IF got.err # "Ok" THEN ExecTrapped(c, data, CsrErrorTrap(pc))
            ELSE RdWritten(w(c, instr.rd, got.val))
    IN  Read(read(c.csr, instr.csr))

\* The encoding MRET reports when it is illegal, 0x30200073
MRET_INST == {0, 1, 4, 5, 6, 21, 28, 29}

\* The encoding SRET reports when it is illegal, 0x10200073
SRET_INST == {0, 1, 4, 5, 6, 21, 28}

\* MRET without the test of the current privilege: the return is made
\* from any mode.
ExecMretAnyMode(c, data, pc) ==
    LET mepc == read(c.csr, \h341)
        csr1 == [c.csr EXCEPT !.priv_mode = mpp(c.csr)]
        csr2 == set_mpp(csr1, User)
        mpie == And(Shr(csr2.mstatus, 7), Bit(0))
        csr3 == [csr2 EXCEPT !.mstatus = Or(And(csr2.mstatus, Not(Bit(3))), Shl(mpie, 3))]
        csr4 == [csr3 EXCEPT !.mstatus = Or(csr3.mstatus, Bit(7))]
    IN  IF mepc.err # "Ok" THEN ExecTrapped(c, data, CsrErrorTrap(pc))
        ELSE ExecOk([c EXCEPT !.csr = csr4, !.pc = mepc.val], data)

\* MRET that sets MIE instead of restoring it from MPIE.
ExecMretEnables(c, data, pc) ==
    LET mepc == read(c.csr, \h341)
        csr1 == [c.csr EXCEPT !.priv_mode = mpp(c.csr)]
        csr2 == set_mpp(csr1, User)
        csr4 == [csr2 EXCEPT !.mstatus = Or(csr2.mstatus, {3, 7})]
    IN  IF c.csr.priv_mode # Machine
        THEN ExecTrapped(c, data, MkTrap("IllegalInstruction", pc, MRET_INST))
        ELSE IF mepc.err # "Ok" THEN ExecTrapped(c, data, CsrErrorTrap(pc))
        ELSE ExecOk([c EXCEPT !.csr = csr4, !.pc = mepc.val], data)

\* MRET
ExecMret(c, data, pc) ==
    LET mepc == read(c.csr, \h341)
        csr1 == [c.csr EXCEPT !.priv_mode = mpp(c.csr)]
        csr2 == set_mpp(csr1, User)
        mpie == And(Shr(csr2.mstatus, 7), Bit(0))
        csr3 == [csr2 EXCEPT !.mstatus = Or(And(csr2.mstatus, Not(Bit(3))), Shl(mpie, 3))]
        csr4 == [csr3 EXCEPT !.mstatus = Or(csr3.mstatus, Bit(7))]
    IN  IF c.csr.priv_mode # Machine
        THEN ExecTrapped(c, data, MkTrap("IllegalInstruction", pc, MRET_INST))
        ELSE IF mepc.err # "Ok" THEN ExecTrapped(c, data, CsrErrorTrap(pc))
        ELSE ExecOk([c EXCEPT !.csr = csr4, !.pc = mepc.val], data)

\* SRET
ExecSret(c, data, pc) ==
    LET sepc == read(c.csr, \h141)
        csr1 == [c.csr EXCEPT !.priv_mode = spp(c.csr)]
        csr2 == set_spp(csr1, User)
        spie == And(Shr(csr2.mstatus, 5), Bit(0))
        csr3 == [csr2 EXCEPT !.mstatus = Or(And(csr2.mstatus, Not(Bit(1))), Shl(spie, 1))]
        csr4 == [csr3 EXCEPT !.mstatus = Or(csr3.mstatus, Bit(5))]
    IN  IF c.csr.priv_mode = User
        THEN ExecTrapped(c, data, MkTrap("IllegalInstruction", pc, SRET_INST))
        ELSE IF sepc.err # "Ok" THEN ExecTrapped(c, data, CsrErrorTrap(pc))
        ELSE ExecOk([c EXCEPT !.csr = csr4, !.pc = sepc.val], data)

\* ECALL: the variant is selected by the current privilege.
ExecEcall(c, data, pc) ==
    ExecTrapped(c, data,
        CASE c.csr.priv_mode = User -> MkTrap("Ecall", pc, Zero)
          [] c.csr.priv_mode = Supervisor -> MkTrap("EcallFromS", pc, Zero)
          [] c.csr.priv_mode = Machine -> MkTrap("EcallFromM", pc, Zero))

\* Jalr with the target computed from rs1 after rd is written.
ExecJalrLateTarget(c, data, instr, pc) ==
    LET Linked(c1) ==
            ExecOk([c1 EXCEPT !.pc = And(wrapping_add(r(c1, instr.rs1), instr.imm),
                                         Not(Bit(0)))], data)
    IN  Linked(w(c, instr.rd, wrapping_add(pc, Four)))

\* Jalr: the target from rs1, then the link into rd, then the jump.
ExecJalr(c, data, instr, pc) ==
    LET target == And(wrapping_add(r(c, instr.rs1), instr.imm), Not(Bit(0)))
    IN  ExecOk([w(c, instr.rd, wrapping_add(pc, Four)) EXCEPT !.pc = target], data)

\* execute: the match on the decoded instruction.
execute(c, data, instr, host_exit_addr) ==
    LET pc == c.pc
        op == instr.op
    IN  CASE op \in RegRegOps ->
               ExecOk(Advance(w(c, instr.rd,
                         Alu(op, r(c, instr.rs1), r(c, instr.rs2))), pc), data)
          [] op \in RegImmOps ->
               ExecOk(Advance(w(c, instr.rd,
                         Alu(op, r(c, instr.rs1), instr.imm)), pc), data)
          [] op \in ShiftImmOps ->
               ExecOk(Advance(w(c, instr.rd,
                         Alu(op, r(c, instr.rs1), FromNat(instr.shamt))), pc), data)
          [] op \in BranchOps ->
               ExecOk([c EXCEPT !.pc =
                         IF Taken(op, r(c, instr.rs1), r(c, instr.rs2))
                         THEN wrapping_add(pc, instr.imm)
                         ELSE wrapping_add(pc, Four)], data)
          [] op = "Lui" -> ExecOk(Advance(w(c, instr.rd, instr.imm), pc), data)
          [] op = "Auipc" ->
               ExecOk(Advance(w(c, instr.rd, wrapping_add(pc, instr.imm)), pc), data)
          [] op = "Jal" ->
               ExecOk([w(c, instr.rd, wrapping_add(pc, Four))
                         EXCEPT !.pc = wrapping_add(pc, instr.imm)], data)
          [] op = "Jalr" -> ExecJalr(c, data, instr, pc)
          [] op \in LoadOps -> ExecLoad(c, data, instr, pc)
          [] op \in {"SB", "SH"} -> ExecStoreNarrow(c, data, instr, pc)
          [] op \in {"SW", "SD"} -> ExecStoreWide(c, data, instr, pc, host_exit_addr)
          [] op \in CsrOps -> ExecCsr(c, data, instr, pc)
          [] op = "Ecall" -> ExecEcall(c, data, pc)
          [] op = "Ebreak" -> ExecTrapped(c, data, MkTrap("Breakpoint", pc, Zero))
          [] op = "Mret" -> ExecMret(c, data, pc)
          [] op = "Sret" -> ExecSret(c, data, pc)
          [] op = "Sfence" -> [ExecOk(Advance(c, pc), data) EXCEPT !.flush = TRUE]
          [] op \in {"Wfi", "Fence"} -> ExecOk(Advance(c, pc), data)

\* ------------------------------------------------------------------------
\* Machine (src/src/cpu/mod.rs)
\* ------------------------------------------------------------------------

\* InterruptTrap carrying the address after pc instead of pc.
InterruptTrapNextPc(irq, pc) ==
    CASE irq = 1 -> MkTrap("SupervisorSoftwareInterrupt", wrapping_add(pc, Bit(2)), Zero)
      [] irq = 3 -> MkTrap("MachineSoftwareInterrupt", wrapping_add(pc, Bit(2)), Zero)
      [] irq = 5 -> MkTrap("SupervisorTimerInterrupt", wrapping_add(pc, Bit(2)), Zero)
      [] irq = 7 -> MkTrap("MachineTimerInterrupt", wrapping_add(pc, Bit(2)), Zero)
      [] irq = 9 -> MkTrap("SupervisorExternalInterrupt", wrapping_add(pc, Bit(2)), Zero)
      [] irq = 11 -> MkTrap("MachineExternalInterrupt", wrapping_add(pc, Bit(2)), Zero)

\* The interrupt Trap that step synthesises for a pending cause.
InterruptTrap(irq, pc) ==
    CASE irq = 1 -> MkTrap("SupervisorSoftwareInterrupt", pc, Zero)
      [] irq = 3 -> MkTrap("MachineSoftwareInterrupt", pc, Zero)
      [] irq = 5 -> MkTrap("SupervisorTimerInterrupt", pc, Zero)
      [] irq = 7 -> MkTrap("MachineTimerInterrupt", pc, Zero)
      [] irq = 9 -> MkTrap("SupervisorExternalInterrupt", pc, Zero)
      [] irq = 11 -> MkTrap("MachineExternalInterrupt", pc, Zero)

\* The delegation decision of handle_trap: the target privilege.
target_mode(csr, trap) ==
    LET delegate_to_s == IF is_interrupt(trap)
                         THEN should_delegate_interrupt(csr, cause(trap))
                         ELSE should_delegate_exception(csr, cause(trap))
    IN  IF delegate_to_s THEN Supervisor ELSE Machine

\* cause_val of handle_trap: the cause with bit 63 set for an interrupt.
cause_val(trap) ==
    IF is_interrupt(trap) THEN Or(FromNat(cause(trap)), Bit(63))
    ELSE FromNat(cause(trap))

\* TrapEntryWrites made through CsrFile::write, which applies the privilege
\* gate of the pre-trap mode; a refused write leaves the register as it was.
TrapEntryWritesGated(csr, trap, target) ==
    LET Put(c, n, v) == IF write(c, n, v).err = "Ok" THEN write(c, n, v).csr ELSE c
    IN  IF target = Supervisor
        THEN Put(Put(Put(csr, \h141, trap.pc), \h142, cause_val(trap)),
                 \h143, tval(trap))
        ELSE Put(Put(Put(csr, \h341, trap.pc), \h342, cause_val(trap)),
                 \h343, tval(trap))

\* The xepc / xcause / xtval writes of handle_trap.
TrapEntryWrites(csr, trap, target) ==
    IF target = Supervisor
    THEN [csr EXCEPT !.sepc = And(trap.pc, Not(Bit(0))),
                     !.scause = cause_val(trap),
                     !.stval = tval(trap)]
    ELSE [csr EXCEPT !.mepc = And(trap.pc, Not(Bit(0))),
                     !.mcause = cause_val(trap),
                     !.mtval = tval(trap)]

\* PrivStackPush that saves the interrupt enable and the privilege but
\* leaves MIE / SIE as it was.
PrivStackPushKeepEnable(csr, target, current_mode) ==
    IF target = Machine
    THEN LET mie == And(Shr(csr.mstatus, 3), Bit(0))
             s1 == Or(And(csr.mstatus, Not(Bit(7))), Shl(mie, 7))
         IN  set_mpp([csr EXCEPT !.mstatus = s1], current_mode)
    ELSE LET sie_bit == And(Shr(csr.mstatus, 1), Bit(0))
             s1 == Or(And(csr.mstatus, Not(Bit(5))), Shl(sie_bit, 5))
         IN  set_spp([csr EXCEPT !.mstatus = s1], current_mode)

\* The privilege-stack update of handle_trap; current_mode is the
\* privilege before the trap.
PrivStackPush(csr, target, current_mode) ==
    IF target = Machine
    THEN LET mie == And(Shr(csr.mstatus, 3), Bit(0))
             s1 == Or(And(csr.mstatus, Not(Bit(7))), Shl(mie, 7))
             s2 == And(s1, Not(Bit(3)))
         IN  set_mpp([csr EXCEPT !.mstatus = s2], current_mode)
    ELSE LET sie_bit == And(Shr(csr.mstatus, 1), Bit(0))
             s1 == Or(And(csr.mstatus, Not(Bit(5))), Shl(sie_bit, 5))
             s2 == And(s1, Not(Bit(1)))
         IN  set_spp([csr EXCEPT !.mstatus = s2], current_mode)

\* TrapVector that indexes the vector table for exceptions as well.
TrapVectorAllCauses(tvec, trap) ==
    LET mode == Field(tvec, 0, 2)
        base == And(tvec, Not({0, 1}))
    IN  IF mode = 1
        THEN wrapping_add(base, FromNat(4 * cause(trap)))
        ELSE base

\* The jump of handle_trap: the new pc for a trap vector with a non-zero base.
TrapVector(tvec, trap) ==
    LET mode == Field(tvec, 0, 2)
        base == And(tvec, Not({0, 1}))
    IN  IF mode = 1 /\ is_interrupt(trap)
        THEN wrapping_add(base, FromNat(4 * cause(trap)))
        ELSE base

\* handle_trap that tests the whole of xtvec, mode bits included, for zero.
handle_trap_whole_tvec(c, trap) ==
    LET Enter(target) ==
            LET csr1 == TrapEntryWrites(c.csr, trap, target)
                tvec == IF target = Supervisor THEN c.csr.stvec ELSE c.csr.mtvec
                csr2 == PrivStackPush(csr1, target, c.csr.priv_mode)
                csr3 == [csr2 EXCEPT !.priv_mode = target]
            IN  IF tvec = Zero
                THEN [err |-> TRUE, cpu |-> [c EXCEPT !.csr = csr3]]
                ELSE [err |-> FALSE,
                      cpu |-> [c EXCEPT !.csr = csr3, !.pc = TrapVector(tvec, trap)]]
    IN  Enter(target_mode(c.csr, trap))

\* Machine::handle_trap; err is TRUE when it returns Err(Trapped(trap)).
handle_trap(c, trap) ==
    LET Enter(target) ==
            LET csr1 == TrapEntryWrites(c.csr, trap, target)
                tvec == IF target = Supervisor THEN c.csr.stvec ELSE c.csr.mtvec
                csr2 == PrivStackPush(csr1, target, c.csr.priv_mode)
                csr3 == [csr2 EXCEPT !.priv_mode = target]
                base == And(tvec, Not({0, 1}))
            IN  IF base = Zero
                THEN [err |-> TRUE, cpu |-> [c EXCEPT !.csr = csr3]]
                ELSE [err |-> FALSE,
                      cpu |-> [c EXCEPT !.csr = csr3, !.pc = TrapVector(tvec, trap)]]
    IN  Enter(target_mode(c.csr, trap))

\* What one call of step returns and leaves behind: the return value
\* (ret), the Cpu, the memory, the executed counter, the trap handed to
\* handle_trap (NoTrap if none), the instruction handed to execute
\* (NoInstr if none) and the payload of Halt(HostExit).  flush tells
\* whether the call reached mmu.flush_tlb; step sets it from execute.
StepOutcome(ret, c, data, executed, trap, instr, code, gp) ==
    [ret |-> ret, cpu |-> c, data |-> data, executed |-> executed,
     trap |-> trap, instr |-> instr, code |-> code, gp |-> gp,
     flush |-> FALSE]

\* No instruction reached execute.
NoInstr == MkInstr("NoInstr", 0, 0, 0, Zero, 0, 0)

\* finish_step that halts only once executed has passed max_insns.
finish_step_past_limit(c, data, executed, max_insns, trap, instr) ==
    IF max_insns # 0 /\ executed + 1 > max_insns
    THEN StepOutcome("HaltMaxInsns", c, data, executed + 1, trap, instr, Zero, Zero)
    ELSE StepOutcome("Continue",
                     [c EXCEPT !.csr.cycle = wrapping_add(c.csr.cycle, Bit(0))],
                     data, executed + 1, trap, instr, Zero, Zero)

\* finish_step that advances cycle before it looks at the budget.
finish_step_cycle_first(c, data, executed, max_insns, trap, instr) ==
    LET c1 == [c EXCEPT !.csr.cycle = wrapping_add(c.csr.cycle, Bit(0))]
    IN  IF max_insns # 0 /\ executed + 1 >= max_insns
        THEN StepOutcome("HaltMaxInsns", c1, data, executed + 1, trap, instr, Zero, Zero)
        ELSE StepOutcome("Continue", c1, data, executed + 1, trap, instr, Zero, Zero)

\* Machine::finish_step
finish_step(c, data, executed, max_insns, trap, instr) ==
    IF max_insns # 0 /\ executed + 1 >= max_insns
    THEN StepOutcome("HaltMaxInsns", c, data, executed + 1, trap, instr, Zero, Zero)
    ELSE StepOutcome("Continue",
                     [c EXCEPT !.csr.cycle = wrapping_add(c.csr.cycle, Bit(0))],
                     data, executed + 1, trap, instr, Zero, Zero)

\* self.handle_trap(trap)?; return self.finish_step()
TrapThenFinish(c, data, executed, max_insns, trap, instr) ==
    LET Handled(h) ==
            IF h.err
            THEN StepOutcome("Trapped", h.cpu, data, executed, trap, instr, Zero, Zero)
            ELSE finish_step(h.cpu, data, executed, max_insns, trap, instr)
    IN  Handled(handle_trap(c, trap))

\* Memory::read_u32_exec as step uses it: translate the pc for a fetch
\* and check that the four bytes lie in RAM.  TRUE when the fetch faults.
FetchFaults(c, data) ==
    LET Translated(t) == ~t.ok \/ check_oob(t.paddr, 4) = -1
    IN  Translated(translate_addr(c.pc, c.csr.satp, TRUE, FALSE, c.csr.priv_mode, data))

\* Machine::step.  inst is the 32-bit word the fetch reads at pc when the
\* fetch succeeds.
step(c, data, executed, max_insns, host_exit_addr, inst) ==
    LET Executed(decoded, e) ==
            CASE e.res = "Ok" ->
                   [finish_step(e.cpu, e.data, executed, max_insns, NoTrap, decoded)
                      EXCEPT !.flush = e.flush]
              [] e.res = "Halt" ->
                   StepOutcome("HaltHostExit", e.cpu, e.data, executed + 1,
                               NoTrap, decoded, e.code, e.gp)
              [] e.res = "Trapped" ->
                   TrapThenFinish(e.cpu, e.data, executed, max_insns, e.trap, decoded)
        Decoded(decoded) ==
            IF decoded = InvalidOpcode
            THEN TrapThenFinish(c, data, executed, max_insns,
                                DecodeErrorTrap(c.pc, inst), NoInstr)
            ELSE Executed(decoded, execute(c, data, decoded, host_exit_addr))
        Polled(irq) ==
            IF irq # None
            THEN TrapThenFinish(c, data, executed, max_insns,
                                InterruptTrap(irq, c.pc), NoInstr)
            ELSE IF FetchFaults(c, data)
            THEN TrapThenFinish(c, data, executed, max_insns,
                                MemErrorTrap(c.pc), NoInstr)
            ELSE Decoded(decode(inst))
    IN  Polled(check_pending_interrupt(c.csr))

\* ------------------------------------------------------------------------
\* Instruction words the fetch can read
\* ------------------------------------------------------------------------

\* The I layout: imm[11:0] rs1 funct3 rd opcode.
EncI(imm12, rs1, funct3, rd, opcode) ==
    Or(Or(Shl(FromNat(imm12), 20), Shl(FromNat(rs1), 15)),
       Or(Or(Shl(FromNat(funct3), 12), Shl(FromNat(rd), 7)), FromNat(opcode)))

\* The R layout: funct7 rs2 rs1 funct3 rd opcode.
EncR(funct7, rs2, rs1, funct3, rd, opcode) ==
    Or(Shl(FromNat(funct7), 25), EncI(rs2, rs1, funct3, rd, opcode))

\* The S layout: imm[11:5] rs2 rs1 funct3 imm[4:0] opcode.
EncS(imm12, rs2, rs1, funct3, opcode) ==
    EncR(imm12 \div 32, rs2, rs1, funct3, imm12 % 32, opcode)

\* The U layout: imm[31:12] rd opcode.
EncU(imm20, rd, opcode) ==
    Or(Shl(FromNat(imm20), 12), Or(Shl(FromNat(rd), 7), FromNat(opcode)))

OP_IMM == \b0010011

OP_SYSTEM == \b1110011

OP_LUI == \b0110111

OP_AUIPC == \b0010111

OP_STORE == \b0100011

Addi(rd, rs1, imm12) == EncI(imm12, rs1, 0, rd, OP_IMM)

Ori(rd, rs1, imm12) == EncI(imm12, rs1, 6, rd, OP_IMM)

Slli(rd, rs1, shamt) == EncI(shamt, rs1, 1, rd, OP_IMM)

Lui(rd, imm20) == EncU(imm20, rd, OP_LUI)

Auipc(rd, imm20) == EncU(imm20, rd, OP_AUIPC)

Sd(rs2, off, rs1) == EncS(off, rs2, rs1, 3, OP_STORE)

Csrrw(rd, csr, rs1) == EncI(csr, rs1, 1, rd, OP_SYSTEM)

Csrrsi(rd, csr, uimm) == EncI(csr, uimm, 6, rd, OP_SYSTEM)

Csrrwi(rd, csr, uimm) == EncI(csr, uimm, 5, rd, OP_SYSTEM)

EcallWord == EncI(\h000, 0, 0, 0, OP_SYSTEM)

EbreakWord == EncI(\h001, 0, 0, 0, OP_SYSTEM)

MretWord == EncI(\h302, 0, 0, 0, OP_SYSTEM)

SretWord == EncI(\h102, 0, 0, 0, OP_SYSTEM)

\* The words the fetch can read outside the boot image.
Encodings ==
    { Addi(1, 0, \hFFF),          \* addi x1, x0, -1
      Addi(0, 1, 2),              \* addi x0, x1, 2
      Csrrw(0, \h301, 1),         \* csrrw x0, misa, x1
      Csrrwi(0, \h305, 1),        \* csrrwi x0, mtvec, 1
      Csrrsi(0, \h300, 8),        \* csrrsi x0, mstatus, 8
      Csrrsi(0, \h100, 2),        \* csrrsi x0, sstatus, 2
      Csrrwi(0, \h344, 10),       \* csrrwi x0, mip, 10
      MretWord,
      SretWord,
      EcallWord,
      EbreakWord,
      Bits32 }                    \* 0xffffffff, not an instruction

\* ------------------------------------------------------------------------
\* Boot images: the programs the loader places at Memory::base
\* ------------------------------------------------------------------------

\* The words that load the mstatus value of a boot image into x3: the
\* previous-privilege field MPP selects where MRET lands.
LoadStatus(target, enables) ==
    CASE target = "S" -> <<Addi(3, 0, 1), Slli(3, 3, 11), Ori(3, 3, enables)>>
      [] target = "R" -> <<Lui(3, 1), Ori(3, 3, enables)>>
      [] OTHER -> <<Addi(3, 0, enables)>>

\* Firmware that sets mepc past the image, enables every interrupt source
\* in mie, writes the delegation registers and the two trap vectors, loads
\* mstatus, and (unless it stays in Machine mode) leaves with MRET.
BootImage(de, di, sv, mv, target, enables) ==
    <<Auipc(1, 0), Addi(1, 1, 64), Csrrw(0, \h341, 1),
      Addi(2, 0, \hFFF), Csrrw(0, \h304, 2)>>
    \o (IF de THEN <<Csrrw(0, \h302, 2)>> ELSE <<>>)
    \o (IF di THEN <<Csrrw(0, \h303, 2)>> ELSE <<>>)
    \o <<Csrrwi(0, \h105, sv), Csrrwi(0, \h305, mv)>>
    \o LoadStatus(target, enables)
    \o <<Csrrw(0, \h300, 3)>>
    \o (IF target = "M" THEN <<>> ELSE <<MretWord>>)

\* Firmware that stores 1 to the host-exit door.
DoorImage == <<Auipc(2, 0), Addi(1, 0, 1), Sd(1, 64, 2)>>

\* The address the loader installs as host_exit_addr for DoorImage.
DoorAddr == wrapping_add(MemBase, Bit(6))

\* Firmware that exercises the CSR instructions in Machine mode and then
\* leaves to User mode, where its last instruction touches sepc.
CsrImage ==
    << Addi(2, 0, \hFFF),                  \* addi   x2, x0, -1
       Csrrw(2, \h340, 2),                 \* csrrw  x2, mscratch, x2
       Addi(2, 0, 5),                      \* addi   x2, x0, 5
       EncI(\h340, 2, 3, 2, OP_SYSTEM),    \* csrrc  x2, mscratch, x2
       EncI(\h141, 2, 2, 2, OP_SYSTEM),    \* csrrs  x2, sepc, x2
       Csrrw(1, \hC00, 2),                 \* csrrw  x1, cycle, x2
       Csrrwi(1, \hF14, 3),                \* csrrwi x1, mhartid, 3
       EncI(\h301, 0, 2, 1, OP_SYSTEM),    \* csrrs  x1, misa, x0
       EncI(\h301, 0, 7, 1, OP_SYSTEM),    \* csrrci x1, misa, 0
       Auipc(3, 0),                        \* auipc  x3, 0
       Addi(3, 3, 16),                     \* addi   x3, x3, 16
       Csrrw(0, \h341, 3),                 \* csrrw  x0, mepc, x3
       MretWord,                           \* mret   (MPP = User)
       Csrrw(2, \h141, 2) >>               \* csrrw  x2, sepc, x2

\* Firmware that writes satp: a bare value, a value with mode 8 (Sv39), a
\* value with mode 15, then a set-bits write and a read; then all ones to
\* sip, mip, sstatus and mstatus; its last instruction writes misa, which
\* CsrFile::write refuses.
SatpImage ==
    << Csrrwi(1, \h180, 5),                \* csrrwi x1, satp, 5
       Addi(2, 0, 1),                      \* addi   x2, x0, 1
       Slli(2, 2, 63),                     \* slli   x2, x2, 63
       Csrrw(1, \h180, 2),                 \* csrrw  x1, satp, x2
       Addi(2, 0, \hFFF),                  \* addi   x2, x0, -1
       Csrrw(1, \h180, 2),                 \* csrrw  x1, satp, x2
       Csrrsi(1, \h180, 2),                \* csrrsi x1, satp, 2
       EncI(\h180, 0, 2, 1, OP_SYSTEM),    \* csrrs  x1, satp, x0
       Csrrw(0, \h144, 2),                 \* csrrw  x0, sip, x2
       Csrrw(0, \h344, 2),                 \* csrrw  x0, mip, x2
       Csrrw(0, \h100, 2),                 \* csrrw  x0, sstatus, x2
       Csrrw(0, \h300, 2),                 \* csrrw  x0, mstatus, x2
       Csrrw(1, \h301, 0) >>               \* csrrw  x1, misa, x0

\* Firmware that stores to the host-exit door with each store width.
StoreImage ==
    << Auipc(2, 0),                        \* auipc  x2, 0
       Addi(1, 0, 1),                      \* addi   x1, x0, 1
       EncS(64, 1, 2, 0, OP_STORE),        \* sb     x1, 64(x2)
       EncS(64, 1, 2, 1, OP_STORE),        \* sh     x1, 64(x2)
       EncS(64, 0, 2, 2, OP_STORE),        \* sw     x0, 64(x2)
       Addi(3, 0, \hFFF),                  \* addi   x3, x0, -1
       Sd(3, 64, 2),                       \* sd     x3, 64(x2)
       EncS(64, 1, 2, 2, OP_STORE) >>      \* sw     x1, 64(x2)

\* What the loader hands to the machine: the image and the door.
Boots ==
    { [image |-> BootImage(de, di, sv, mv, target, \h00A), door |-> NoHostExit] :
        de \in BOOLEAN, di \in BOOLEAN, sv \in {0, 8, 9}, mv \in {0, 4, 5},
        target \in {"U", "S", "M"} }
    \cup { [image |-> BootImage(FALSE, FALSE, 0, 4, "R", \h0A0), door |-> NoHostExit],
           [image |-> DoorImage, door |-> DoorAddr],
           [image |-> StoreImage, door |-> DoorAddr],
           [image |-> CsrImage, door |-> NoHostExit],
           [image |-> SatpImage, door |-> NoHostExit],
           [image |-> <<Sd(0, 0, 0)>>, door |-> NoHostExit],   \* sd x0, 0(x0)
           [image |-> <<EncR(1, 2, 1, 0, 3, \b0110011)>>,      \* mul x3, x1, x2
            door |-> NoHostExit],
           [image |-> <<EncI(\h105, 0, 0, 0, OP_SYSTEM)>>,     \* wfi
            door |-> NoHostExit],
           [image |-> <<Addi(3, 0, 1),                         \* addi  x3, x0, 1
                        Slli(3, 3, 11),                        \* slli  x3, x3, 11
                        Csrrw(0, \h300, 3),                    \* csrrw x0, mstatus, x3 (MPP = S)
                        Auipc(3, 0),                           \* auipc x3, 0
                        Addi(3, 3, 16),                        \* addi  x3, x3, 16
                        Csrrw(0, \h341, 3),                    \* csrrw x0, mepc, x3
                        MretWord,                              \* mret  (to Supervisor)
                        Addi(2, 0, \hFFF),                     \* addi  x2, x0, -1
                        Csrrw(0, \h100, 2),                    \* csrrw x0, sstatus, x2
                        Csrrw(0, \h104, 2),                    \* csrrw x0, sie, x2
                        Csrrw(0, \h144, 2),                    \* csrrw x0, sip, x2
                        Csrrw(1, \h140, 2),                    \* csrrw x1, sscratch, x2
                        Csrrw(1, \hC00, 2)>>,                  \* csrrw x1, cycle, x2
            door |-> NoHostExit],
           [image |-> <<Auipc(3, 0),                           \* auipc x3, 0
                        Addi(3, 3, 16),                        \* addi  x3, x3, 16
                        Csrrw(0, \h341, 3),                    \* csrrw x0, mepc, x3
                        MretWord,                              \* mret  (to User)
                        Addi(2, 0, \hFFF),                     \* addi  x2, x0, -1
                        Csrrw(1, \hC00, 2),                    \* csrrw x1, cycle, x2
                        EncI(\hC01, 0, 2, 1, OP_SYSTEM)>>,     \* csrrs x1, time, x0
            door |-> NoHostExit],
           [image |-> <<Auipc(2, 0),                           \* auipc x2, 0
                        Addi(1, 0, 1),                         \* addi  x1, x0, 1
                        EncS(68, 1, 2, 0, OP_STORE),           \* sb    x1, 68(x2)
                        EncS(64, 0, 2, 2, OP_STORE),           \* sw    x0, 64(x2)
                        EncS(72, 1, 2, 2, OP_STORE)>>,         \* sw    x1, 72(x2)
            door |-> DoorAddr],
           [image |-> <<Auipc(3, 0),                           \* auipc x3, 0
                        Addi(3, 3, 16),                        \* addi  x3, x3, 16
                        Csrrw(0, \h305, 3),                    \* csrrw x0, mtvec, x3
                        EcallWord,                             \* ecall
                        MretWord>>,                            \* mret  (the handler)
            door |-> NoHostExit],
           [image |-> <<Auipc(1, 0),                           \* auipc x1, 0
                        EncI(9, 1, 0, 1, \b1100111),           \* jalr  x1, 9(x1)
                        Or({23}, EncI(0, 0, 0, 5, \b1101111)), \* jal   x5, 8
                        EncI(\hFFF, 0, 0, 0, \b1100111),       \* jalr  x0, -1(x0)
                        Or((12..20) \cup (22..31),             \* jal   x0, -4
                           FromNat(\b1101111))>>,
            door |-> NoHostExit],
           [image |-> <<EncI(\h401, 1, 1, 1, OP_IMM),          \* slli x1, x1, 1 with bit 30 set
                        EncI(0, 1, 0, 1, OP_SYSTEM)>>,          \* ecall with rd = rs1 = 1
            door |-> NoHostExit],
           [image |-> <<>>, door |-> NoHostExit] }

\* The word the fetch reads at pc: the word of the boot image when pc lies
\* in it, any of Encodings elsewhere.
ImageWords(img, pc) ==
    LET At(off) ==
            IF off \cap (12..63) = {} /\ off \cap {0, 1} = {}
               /\ ToNat(off) \div 4 < Len(img)
            THEN {img[ToNat(off) \div 4 + 1]}
            ELSE Encodings
    IN  IF LtU(pc, MemBase) THEN Encodings ELSE At(wrapping_sub(pc, MemBase))

\* ------------------------------------------------------------------------
\* The state machine
\* ------------------------------------------------------------------------

VARIABLES
    cpu,             \* Machine.cpu: regs, pc, csr
    mem,             \* Machine.mem.data
    executed,        \* Machine.executed
    max_insns,       \* Machine.max_insns
    host_exit_addr,  \* Machine.host_exit_addr
    image,           \* the program words the loader placed at Memory::base
    last             \* what the latest call of step returned and did

vars == <<cpu, mem, executed, max_insns, host_exit_addr, image, last>>

\* No call of step has been made yet.
NoStep == StepOutcome("None", CpuDefault, MemoryNew, 0, NoTrap, NoInstr, Zero, Zero)

\* The observation of a call of step.
Observe(o) == [ret |-> o.ret, trap |-> o.trap, instr |-> o.instr,
               code |-> o.code, gp |-> o.gp, flush |-> o.flush]

\* Machine::new, then the host loads an image and sets the entry pc, the
\* instruction budget (none, or one that runs out after the image) and
\* the door.
Init ==
    /\ \E b \in Boots :
         /\ image = b.image
         /\ host_exit_addr = b.door
         /\ max_insns \in {0, Len(b.image) + 1}
    /\ cpu = [CpuDefault EXCEPT !.pc = MemBase]
    /\ mem = MemoryNew
    /\ executed = 0
    /\ last = Observe(NoStep)

\* The physical address the fetch at pc reads (pc itself when the
\* translation fails and nothing is read).
FetchAddr ==
    LET Translated(t) == IF t.ok THEN t.paddr ELSE cpu.pc
    IN  Translated(translate_addr(cpu.pc, cpu.csr.satp, TRUE, FALSE,
                                  cpu.csr.priv_mode, mem))

\* The host loop of main.rs: call step until it returns an Err.
Running == last.ret \in {"None", "Continue"}

\* One call of Machine::step.
Step ==
    /\ Running
    /\ executed < Len(image) + MaxSteps
    /\ \E inst \in ImageWords(image, FetchAddr) :
         \E o \in {step(cpu, mem, executed, max_insns, host_exit_addr, inst)} :
             /\ cpu' = o.cpu
             /\ mem' = o.data
             /\ executed' = o.executed
             /\ last' = Observe(o)
    /\ UNCHANGED <<max_insns, host_exit_addr, image>>

\* The timer sets MTIP or STIP (CsrFile::set_timer_interrupt).
SetTimerInterrupt ==
    /\ Running
    /\ \E is_machine \in BOOLEAN :
         cpu' = [cpu EXCEPT !.csr = set_timer_interrupt(cpu.csr, is_machine)]
    /\ UNCHANGED <<mem, executed, max_insns, host_exit_addr, image, last>>

\* The timer clears MTIP or STIP (CsrFile::clear_timer_interrupt).
ClearTimerInterrupt ==
    /\ Running
    /\ \E is_machine \in BOOLEAN :
         cpu' = [cpu EXCEPT !.csr = clear_timer_interrupt(cpu.csr, is_machine)]
    /\ UNCHANGED <<mem, executed, max_insns, host_exit_addr, image, last>>

Next == Step \/ SetTimerInterrupt \/ ClearTimerInterrupt

Spec == Init /\ [][Next]_vars

\* The host loop of main.rs calls step again after every Ok(()): a call
\* that stays possible is made, however the timer interleaves.  This is
\* weak fairness of Step, written with the condition under which Step
\* can be taken.
SpecLoop ==
    /\ Spec
    /\ \/ []<>(~(Running /\ executed < Len(image) + MaxSteps))
       \/ []<><<Step>>_vars

\* ------------------------------------------------------------------------
\* check_pending_interrupt over every privilege, enable and pending set
\* ------------------------------------------------------------------------

\* The six interrupt-pending positions of mip.
IrqBits == {1, 3, 5, 7, 9, 11}

\* A machine whose CSR file an embedding host has set up through its
\* public fields: any privilege, any MIE / SIE, any set of pending
\* interrupts, each source enabled or only one level's sources.
InitIrq ==
    /\ \E mode \in PrivMode, status \in SUBSET {1, 3}, pending \in SUBSET IrqBits,
          enabled \in {IrqBits, {3, 7, 11}, {1, 5, 9}}, vector \in {Zero, Bit(2)} :
         cpu = [CpuDefault EXCEPT !.pc = MemBase,
                                  !.csr.priv_mode = mode,
                                  !.csr.mstatus = status,
                                  !.csr.mip = pending,
                                  !.csr.mie = enabled,
                                  !.csr.mtvec = vector]
    /\ image = <<>>
    /\ host_exit_addr = NoHostExit
    /\ max_insns = 0
    /\ mem = MemoryNew
    /\ executed = 0
    /\ last = Observe(NoStep)

SpecIrq == InitIrq /\ [][Next]_vars

\* ------------------------------------------------------------------------
\* A Supervisor-mode guest under Sv39
\* ------------------------------------------------------------------------

\* A machine an embedding host has set up through the public fields, as
\* the test of exec.rs does: satp = Sv39 with the root table at
\* Memory::base, privilege Supervisor, the door at DoorAddr.  Entry 9 of
\* the root table (bytes 72..79) is a 1 GiB leaf that maps the virtual
\* addresses from 0x2_4000_0000 to Memory::base with V R W X A D, or the
\* same without W, or is invalid; entry 2 (bytes 16..23) is invalid or a
\* leaf that maps the virtual addresses from 0x8000_0000 to 0xC000_0000.
\* The guest enters at 0x2_4000_0000, where the image is seen, and stores
\* 1 through the first mapping to the door (sw or sd) or at the virtual
\* address that equals the door's number (sw).
InitVm ==
    /\ \E code \in {{29} \cup {0, 1, 2, 3, 6, 7}, {29} \cup {0, 1, 3, 6, 7}, Zero},
          away \in {{28, 29} \cup {0, 1, 2, 3, 6, 7}, Zero} :
         mem = write_phys(write_phys(MemoryNew, wrapping_add(MemBase, FromNat(72)),
                                     8, code).data,
                          wrapping_add(MemBase, FromNat(16)), 8, away).data
    /\ image \in { <<Auipc(2, 0), Addi(1, 0, 1), EncS(64, 1, 2, 2, OP_STORE)>>,
                   DoorImage,
                   <<Addi(1, 0, 1), Addi(2, 0, 1), Slli(2, 2, 31),
                     EncS(64, 1, 2, 2, OP_STORE)>> }
    /\ \E vector \in {Zero, Bit(2)} :
         cpu = [CpuDefault EXCEPT !.pc = {33, 30},
                                  !.csr.priv_mode = Supervisor,
                                  !.csr.satp = {63, 19},
                                  !.csr.mtvec = vector]
    /\ host_exit_addr = DoorAddr
    /\ max_insns = 0
    /\ executed = 0
    /\ last = Observe(NoStep)

SpecVm == InitVm /\ [][Next]_vars

\* ------------------------------------------------------------------------
\* execute called on Instr values, as the tests of exec.rs call it
\* ------------------------------------------------------------------------

\* A Cpu with a dividend in x1 and a divisor in x2: 0, 1, 3, 7, -1, -7,
\* INT64_MIN and INT64_MAX each.
InitDiv ==
    /\ \E a, b \in {Zero, Bit(0), {0, 1}, {0, 1, 2}, AllOnes, AllOnes \ {1, 2},
                    Bit(63), AllOnes \ {63}} :
         cpu = [CpuDefault EXCEPT !.pc = MemBase, !.regs[1] = a, !.regs[2] = b]
    /\ image = <<>>
    /\ host_exit_addr = NoHostExit
    /\ max_insns = 0
    /\ mem = MemoryNew
    /\ executed = 0
    /\ last = Observe(NoStep)

\* One call of execute on the Instr that stands at pc in the sequence
\* div x3, x1, x2; rem x4, x1, x2; divu x5, x1, x2; remu x6, x1, x2.
ExecuteDirect ==
    /\ LtU(cpu.pc, wrapping_add(MemBase, Bit(4)))
    /\ ~LtU(cpu.pc, MemBase)
    /\ \E instr \in {CASE cpu.pc = MemBase -> MkInstr("Div", 3, 1, 2, Zero, 0, 0)
                       [] cpu.pc = wrapping_add(MemBase, Bit(2)) ->
                            MkInstr("Rem", 4, 1, 2, Zero, 0, 0)
                       [] cpu.pc = wrapping_add(MemBase, Bit(3)) ->
                            MkInstr("Divu", 5, 1, 2, Zero, 0, 0)
                       [] OTHER -> MkInstr("Remu", 6, 1, 2, Zero, 0, 0)} :
         \E e \in {execute(cpu, mem, instr, host_exit_addr)} :
             /\ cpu' = e.cpu
             /\ mem' = e.data
             /\ last' = Observe(StepOutcome(e.res, e.cpu, e.data, executed,
                                            e.trap, instr, Zero, Zero))
    /\ UNCHANGED <<executed, max_insns, host_exit_addr, image>>

SpecDiv == InitDiv /\ [][ExecuteDirect]_vars

\* ------------------------------------------------------------------------
\* Properties
\* ------------------------------------------------------------------------

\* A call of step is what changes executed or last.
Stepped == <<executed, last>>' # <<executed, last>>

\* A call of step that made a trap entry (handle_trap ran).
TrapEntry == Stepped /\ last'.trap # NoTrap

\* C1: register x0 is zero after every step, whatever the step returned
\* and whatever instruction ran; a write whose destination is x0 is dropped.
X0Zero == cpu.regs[0] = Zero

\* A CSR instruction with rd = x0 read misa in Machine mode, reached the
\* write of x0 and then trapped on the refused write of misa.
X0ZeroWitness ==
    /\ last.instr.op = "Csrrw" /\ last.instr.rd = 0 /\ last.instr.csr = \h301
    /\ last.trap.kind = "IllegalInstruction"
    /\ cpu.csr.priv_mode = Machine /\ Field(cpu.csr.mstatus, 11, 2) = Machine

\* C2: the current privilege is always User, Supervisor or Machine, and
\* it changes only in a step that makes a trap entry or executes MRET or
\* SRET.
PrivilegeTransitions ==
    /\ [](cpu.csr.priv_mode \in PrivMode)
    /\ [][cpu.csr.priv_mode' # cpu.csr.priv_mode
            => Stepped /\ (last'.trap # NoTrap \/ last'.instr.op \in {"Mret", "Sret"})]_vars

\* MRET has returned from Machine mode to Supervisor mode.
PrivilegeTransitionsWitness ==
    /\ last.instr.op = "Mret" /\ last.trap = NoTrap
    /\ cpu.csr.priv_mode = Supervisor

\* C3: after a trap entry the current privilege is the target; a Machine
\* target has MPP = the pre-trap privilege, MPIE = the pre-trap MIE and
\* MIE = 0; a Supervisor target has SPP = the pre-trap privilege, SPIE =
\* the pre-trap SIE and SIE = 0.
TrapEntryStack ==
    [][TrapEntry =>
         \/ /\ cpu'.csr.priv_mode = Machine
            /\ Field(cpu'.csr.mstatus, 11, 2) = cpu.csr.priv_mode
            /\ (7 \in cpu'.csr.mstatus) = (3 \in cpu.csr.mstatus)
            /\ 3 \notin cpu'.csr.mstatus
         \/ /\ cpu'.csr.priv_mode = Supervisor
            /\ (8 \in cpu'.csr.mstatus) = (cpu.csr.priv_mode = Supervisor)
            /\ (5 \in cpu'.csr.mstatus) = (1 \in cpu.csr.mstatus)
            /\ 1 \notin cpu'.csr.mstatus]_vars

\* A trap from User mode entered Supervisor mode while SIE was set:
\* SPP = User, SPIE = 1, SIE = 0.
TrapEntryStackWitness ==
    /\ last.trap.kind = "Ecall"
    /\ cpu.csr.priv_mode = Supervisor
    /\ 8 \notin cpu.csr.mstatus /\ 5 \in cpu.csr.mstatus /\ 1 \notin cpu.csr.mstatus

\* C4: the target of a trap is Supervisor exactly when the pre-trap
\* privilege is below Machine and the bit of the cause is set in medeleg
\* (exception) or mideleg (interrupt); otherwise it is Machine.
TrapDelegation ==
    [][TrapEntry =>
         LET delegated ==
                 /\ cpu.csr.priv_mode < Machine
                 /\ cause(last'.trap) \in (IF is_interrupt(last'.trap)
                                           THEN cpu.csr.mideleg ELSE cpu.csr.medeleg)
         IN  cpu'.csr.priv_mode = (IF delegated THEN Supervisor ELSE Machine)]_vars

\* An ECALL in Machine mode with its cause delegated in medeleg stayed in
\* Machine mode.
TrapDelegationWitness ==
    /\ last.trap.kind = "EcallFromM"
    /\ 11 \in cpu.csr.medeleg
    /\ cpu.csr.priv_mode = Machine

\* C5: a trap entry writes the target level's registers whatever the
\* pre-trap privilege: xepc = the pc of the trap with bit 0 cleared,
\* xcause = the cause with bit 63 set exactly for an interrupt, xtval =
\* the trap value; the other level's epc, cause and tval keep their values.
TrapEntryRegisters ==
    [][TrapEntry =>
         LET code == IF is_interrupt(last'.trap)
                     THEN FromNat(cause(last'.trap)) \cup {63}
                     ELSE FromNat(cause(last'.trap))
         IN  IF cpu'.csr.priv_mode = Supervisor
             THEN /\ cpu'.csr.sepc = cpu.pc \ {0}
                  /\ cpu'.csr.scause = code
                  /\ cpu'.csr.stval = tval(last'.trap)
                  /\ cpu'.csr.mepc = cpu.csr.mepc
                  /\ cpu'.csr.mcause = cpu.csr.mcause
                  /\ cpu'.csr.mtval = cpu.csr.mtval
             ELSE /\ cpu'.csr.mepc = cpu.pc \ {0}
                  /\ cpu'.csr.mcause = code
                  /\ cpu'.csr.mtval = tval(last'.trap)
                  /\ cpu'.csr.sepc = cpu.csr.sepc
                  /\ cpu'.csr.scause = cpu.csr.scause
                  /\ cpu'.csr.stval = cpu.csr.stval]_vars

\* An illegal instruction in User mode entered Machine mode: mcause = 2,
\* mtval = the encoding, mepc = the pc MRET had returned to.
TrapEntryRegistersWitness ==
    /\ last.trap.kind = "IllegalInstruction" /\ last.trap.info = Bits32
    /\ cpu.csr.priv_mode = Machine /\ Field(cpu.csr.mstatus, 11, 2) = User
    /\ cpu.csr.mcause = {1} /\ cpu.csr.mtval = Bits32
    /\ cpu.csr.mepc = wrapping_add(MemBase, Bit(6))

\* C6: a trap taken with a non-zero base in the target's xtvec leaves the
\* pc at the base in direct mode, at base + 4 * cause for an interrupt in
\* vectored mode, and at the base for an exception in vectored mode.
TrapVectorJump ==
    [][TrapEntry =>
         LET tvec == IF cpu'.csr.priv_mode = Supervisor
                     THEN cpu.csr.stvec ELSE cpu.csr.mtvec
         IN  tvec \ {0, 1} # Zero =>
               /\ tvec \cap {0, 1} = {} => cpu'.pc = tvec \ {0, 1}
               /\ tvec \cap {0, 1} = {0} /\ is_interrupt(last'.trap) =>
                    cpu'.pc = wrapping_add(tvec \ {0, 1},
                                           FromNat(4 * cause(last'.trap)))
               /\ tvec \cap {0, 1} = {0} /\ ~is_interrupt(last'.trap) =>
                    cpu'.pc = tvec \ {0, 1}]_vars

\* A delegated supervisor timer interrupt went through the vectored stvec
\* (base 8) to 8 + 4 * 5.
TrapVectorJumpWitness ==
    /\ last.trap.kind = "SupervisorTimerInterrupt"
    /\ cpu.csr.priv_mode = Supervisor
    /\ cpu.csr.stvec = {0, 3}
    /\ cpu.pc = {2, 3, 4}

\* C7: step returns Trapped exactly when it took a trap and the base of
\* the target's xtvec is zero; a trap taken with a non-zero base returns
\* Continue or Halt(MaxInsns) with the pc at the vector.
TrappedResult ==
    [][Stepped =>
         LET tvec == IF cpu'.csr.priv_mode = Supervisor
                     THEN cpu.csr.stvec ELSE cpu.csr.mtvec
             base == tvec \ {0, 1}
         IN  /\ (last'.ret = "Trapped") = (last'.trap # NoTrap /\ base = Zero)
             /\ last'.trap # NoTrap /\ base # Zero =>
                  /\ last'.ret \in {"Continue", "HaltMaxInsns"}
                  /\ cpu'.pc = IF tvec \cap {0, 1} = {0} /\ is_interrupt(last'.trap)
                               THEN wrapping_add(base, FromNat(4 * cause(last'.trap)))
                               ELSE base]_vars

\* A trap was taken with mtvec holding only a mode bit (base zero) and
\* surfaced as Trapped.
TrappedResultWitness ==
    /\ last.ret = "Trapped"
    /\ cpu.csr.priv_mode = Machine
    /\ cpu.csr.mtvec = {0}

\* C8 as stated: a step that starts with a pending and enabled interrupt
\* delivers it with xepc = the pc, executes no instruction, leaves the
\* registers and the memory alone, and advances cycle by one.
InterruptStepAlwaysCounts ==
    [][Stepped /\ check_pending_interrupt(cpu.csr) # None =>
         /\ is_interrupt(last'.trap)
         /\ cause(last'.trap) = check_pending_interrupt(cpu.csr)
         /\ cpu.pc = (IF cpu'.csr.priv_mode = Supervisor
                      THEN cpu'.csr.sepc ELSE cpu'.csr.mepc)
         /\ last'.instr = NoInstr
         /\ cpu'.regs = cpu.regs
         /\ mem' = mem
         /\ cpu'.csr.cycle = wrapping_add(cpu.csr.cycle, Bit(0))]_vars

\* C8: a step that starts with a pending and enabled interrupt delivers
\* it with xepc = the pc, executes no instruction and leaves the registers
\* and the memory alone; it advances cycle by one when it returns Continue
\* and leaves cycle unchanged when it returns Trapped or Halt(MaxInsns).
InterruptStep ==
    [][Stepped /\ check_pending_interrupt(cpu.csr) # None =>
         /\ is_interrupt(last'.trap)
         /\ cause(last'.trap) = check_pending_interrupt(cpu.csr)
         /\ cpu.pc = (IF cpu'.csr.priv_mode = Supervisor
                      THEN cpu'.csr.sepc ELSE cpu'.csr.mepc)
         /\ last'.instr = NoInstr
         /\ cpu'.regs = cpu.regs
         /\ mem' = mem
         /\ last'.ret \in {"Continue", "Trapped", "HaltMaxInsns"}
         /\ cpu'.csr.cycle = (IF last'.ret = "Continue"
                              THEN wrapping_add(cpu.csr.cycle, Bit(0))
                              ELSE cpu.csr.cycle)]_vars

\* A machine timer interrupt was delivered in a step that returned
\* Continue.
InterruptStepWitness ==
    /\ last.trap.kind = "MachineTimerInterrupt"
    /\ last.ret = "Continue"
    /\ last.instr = NoInstr
    /\ cpu.csr.mcause = {0, 1, 2, 63}

\* C9 as stated: with mip & mie non-zero an interrupt is reported in
\* Machine mode iff MIE, in Supervisor mode iff (mode < Machine) or
\* (mode = Supervisor and SIE), in User mode always; otherwise none.
GlobalEnableAsStated ==
    [][Stepped =>
         is_interrupt(last'.trap) =
           /\ cpu.csr.mip \cap cpu.csr.mie # {}
           /\ CASE cpu.csr.priv_mode = Machine -> 3 \in cpu.csr.mstatus
                [] cpu.csr.priv_mode = Supervisor ->
                     \/ cpu.csr.priv_mode < Machine
                     \/ cpu.csr.priv_mode = Supervisor /\ 1 \in cpu.csr.mstatus
                [] cpu.csr.priv_mode = User -> TRUE]_vars

\* C9: with mip & mie non-zero an interrupt is reported in Machine mode
\* iff MIE, in Supervisor mode iff SIE, in User mode always; with mip & mie
\* zero, or the enable clear, none is reported.
GlobalEnable ==
    [][Stepped =>
         is_interrupt(last'.trap) =
           /\ cpu.csr.mip \cap cpu.csr.mie # {}
           /\ CASE cpu.csr.priv_mode = Machine -> 3 \in cpu.csr.mstatus
                [] cpu.csr.priv_mode = Supervisor -> 1 \in cpu.csr.mstatus
                [] cpu.csr.priv_mode = User -> TRUE]_vars

\* Supervisor mode with SIE clear and an interrupt pending and enabled:
\* the step delivered none and executed ECALL instead.
GlobalEnableWitness ==
    /\ last.trap.kind = "EcallFromS"
    /\ 1 \notin cpu.csr.mstatus
    /\ 7 \in cpu.csr.mip \cap cpu.csr.mie

\* C10: of several pending and enabled interrupts the one reported, and
\* delivered by the step as the Trap variant of that cause, is the first
\* in the order MEI (11), MSI (3), MTI (7), SEI (9), SSI (1), STI (5).
InterruptPriority ==
    [][Stepped /\ check_pending_interrupt(cpu.csr) # None =>
         LET order == <<11, 3, 7, 9, 1, 5>>
             pending_enabled == cpu.csr.mip \cap cpu.csr.mie
             first == CHOOSE i \in 1..6 :
                        /\ order[i] \in pending_enabled
                        /\ \A j \in 1..(i - 1) : order[j] \notin pending_enabled
             kinds == <<"MachineExternalInterrupt", "MachineSoftwareInterrupt",
                        "MachineTimerInterrupt", "SupervisorExternalInterrupt",
                        "SupervisorSoftwareInterrupt", "SupervisorTimerInterrupt">>
         IN  /\ check_pending_interrupt(cpu.csr) = order[first]
             /\ last'.trap.kind = kinds[first]
             /\ cause(last'.trap) = order[first]]_vars

\* Machine software and machine timer, and all three supervisor
\* interrupts, pending and enabled at once: the machine software interrupt
\* was delivered.
InterruptPriorityWitness ==
    /\ last.trap.kind = "MachineSoftwareInterrupt"
    /\ {1, 3, 5, 7, 9} \subseteq cpu.csr.mip \cap cpu.csr.mie
    /\ 11 \notin cpu.csr.mip

\* C11 as stated: MRET in Machine mode installs the raw value of the MPP
\* field as the current privilege (and sets pc, MIE, MPIE, MPP as below).
MretReturnRawMpp ==
    [][Stepped /\ last'.instr.op = "Mret" /\ cpu.csr.priv_mode = Machine
       => /\ last'.trap = NoTrap
          /\ cpu'.pc = cpu.csr.mepc
          /\ cpu'.csr.priv_mode = Field(cpu.csr.mstatus, 11, 2)
          /\ (3 \in cpu'.csr.mstatus) = (7 \in cpu.csr.mstatus)
          /\ 7 \in cpu'.csr.mstatus
          /\ cpu'.csr.mstatus \cap {11, 12} = {}]_vars

\* C11: MRET in Machine mode sets pc = mepc, the privilege to the mode MPP
\* names (User when MPP holds the reserved value 2), MIE = old MPIE,
\* MPIE = 1 and MPP = User, and changes nothing else of mstatus; in
\* Supervisor or User mode it raises IllegalInstruction carrying the MRET
\* encoding, and the state after the step is the trap entry of the
\* unchanged pre-state.
MretReturn ==
    [][Stepped /\ last'.instr.op = "Mret"
       => IF cpu.csr.priv_mode = Machine
          THEN /\ last'.trap = NoTrap
               /\ cpu'.pc = cpu.csr.mepc
               /\ cpu'.csr.priv_mode =
                      (IF Field(cpu.csr.mstatus, 11, 2) \in PrivMode
                       THEN Field(cpu.csr.mstatus, 11, 2) ELSE User)
               /\ (3 \in cpu'.csr.mstatus) = (7 \in cpu.csr.mstatus)
               /\ 7 \in cpu'.csr.mstatus
               /\ cpu'.csr.mstatus \cap {11, 12} = {}
               /\ cpu'.csr.mstatus \ {3, 7, 11, 12} = cpu.csr.mstatus \ {3, 7, 11, 12}
               /\ cpu'.regs = cpu.regs
          ELSE /\ last'.trap = MkTrap("IllegalInstruction", cpu.pc, MRET_INST)
               /\ [cpu' EXCEPT !.csr.cycle = cpu.csr.cycle]
                     = handle_trap(cpu, last'.trap).cpu]_vars

\* An MRET from Machine mode with MPP = Supervisor and MPIE clear landed in
\* Supervisor mode with MIE clear.
MretReturnWitness ==
    /\ last.instr.op = "Mret"
    /\ last.trap = NoTrap
    /\ cpu.csr.priv_mode = Supervisor
    /\ cpu.pc = cpu.csr.mepc
    /\ cpu.csr.mstatus \cap {3, 7, 11, 12} = {7}

\* C12 as stated: a step that fetches the SRET encoding in Supervisor or
\* Machine mode takes no trap and sets pc = sepc, the privilege to SPP,
\* SIE = old SPIE, SPIE = 1 and SPP = User; in User mode it raises
\* IllegalInstruction.  The step fetched SRET when execute got an Sret
\* instruction or the step reported the SRET word as illegal.
SretReturn ==
    [][/\ Stepped
       /\ \/ last'.instr.op = "Sret"
          \/ /\ last'.trap.kind = "IllegalInstruction"
             /\ last'.trap.info = SretWord
       => IF cpu.csr.priv_mode = User
          THEN last'.trap = MkTrap("IllegalInstruction", cpu.pc, SRET_INST)
          ELSE /\ last'.trap = NoTrap
               /\ cpu'.pc = cpu.csr.sepc
               /\ cpu'.csr.priv_mode = Field(cpu.csr.mstatus, 8, 1)
               /\ (1 \in cpu'.csr.mstatus) = (5 \in cpu.csr.mstatus)
               /\ 5 \in cpu'.csr.mstatus
               /\ 8 \notin cpu'.csr.mstatus]_vars

\* C13: bit 0 of mepc and of sepc is clear in every state: CSR writes mask
\* it and trap entry stores a pc whose bit 0 is clear.
EpcBitZeroClear == 0 \notin cpu.csr.mepc /\ 0 \notin cpu.csr.sepc

\* A csrrs that set every bit of sepc left all of them but bit 0 set.
EpcBitZeroClearWitness ==
    /\ last.instr.op = "Csrrs"
    /\ last.instr.csr = \h141
    /\ last.trap = NoTrap
    /\ cpu.csr.sepc = AllOnes \ {0}

\* C14: a CSR instruction on a CSR whose address bits [9:8] exceed the
\* current privilege raises IllegalInstruction with trap value zero and
\* changes no register (rd included) and no CSR: the state after the step
\* is the trap entry of the unchanged pre-state.
CsrPrivilegeViolation ==
    [][/\ Stepped
       /\ last'.instr.op \in CsrOps
       /\ cpu.csr.priv_mode < (last'.instr.csr \div 256) % 4
       => /\ last'.trap = MkTrap("IllegalInstruction", cpu.pc, Zero)
          /\ cpu'.regs = cpu.regs
          /\ [cpu' EXCEPT !.csr.cycle = cpu.csr.cycle]
                = handle_trap(cpu, last'.trap).cpu]_vars

\* A csrrw x2, sepc, x2 in User mode trapped into Machine mode: x2 did not
\* receive sepc and sepc kept its value.
CsrPrivilegeViolationWitness ==
    /\ last.instr.op = "Csrrw"
    /\ last.instr.csr = \h141
    /\ last.instr.rd = 2
    /\ last.trap.kind = "IllegalInstruction"
    /\ cpu.csr.mstatus \cap {11, 12} = {}
    /\ cpu.csr.mcause = Bit(1)
    /\ cpu.regs[2] = Zero
    /\ cpu.csr.sepc = AllOnes \ {0}

\* C15: a CSR instruction that performs its write phase on an implemented
\* read-only CSR (cycle, time, instret, mvendorid, marchid, mimpid,
\* mhartid) at sufficient privilege takes no trap, changes no CSR, leaves
\* the value read from the CSR in rd and advances pc by 4.
ReadOnlyCsrWrite ==
    [][/\ Stepped
       /\ last'.instr.op \in CsrOps
       /\ last'.instr.csr \in {\hC00, \hC01, \hC02, \hF11, \hF12, \hF13, \hF14}
       /\ cpu.csr.priv_mode >= (last'.instr.csr \div 256) % 4
       /\ ~(last'.instr.op \in {"Csrrs", "Csrrc"} /\ last'.instr.rs1 = 0)
       /\ ~(last'.instr.op \in {"Csrrsi", "Csrrci"} /\ last'.instr.shamt = 0)
       => /\ last'.trap = NoTrap
          /\ [cpu'.csr EXCEPT !.cycle = cpu.csr.cycle] = cpu.csr
          /\ cpu'.regs =
                IF last'.instr.rd = 0 THEN cpu.regs
                ELSE [cpu.regs EXCEPT ![last'.instr.rd] =
                        CASE last'.instr.csr \in {\hC00, \hC02} -> cpu.csr.cycle
                          [] last'.instr.csr = \hC01 -> cpu.csr.time
                          [] last'.instr.csr = \hF14 -> cpu.csr.mhartid
                          [] OTHER -> Zero]
          /\ cpu'.pc = wrapping_add(cpu.pc, Bit(2))]_vars

\* A csrrw x1, cycle, x2 completed: x1 holds the cycle count the
\* instruction read, which the step then advanced by one.
ReadOnlyCsrWriteWitness ==
    /\ last.instr.op = "Csrrw"
    /\ last.instr.csr = \hC00
    /\ last.ret = "Continue"
    /\ last.trap = NoTrap
    /\ cpu.regs[1] # Zero
    /\ cpu.csr.cycle = wrapping_add(cpu.regs[1], Bit(0))

\* C16 as stated: a CSR write to satp whose mode field (bits 63:60) is 0
\* (bare) or 8 (Sv39) is stored; a write with any other mode leaves satp
\* unchanged; neither traps.
SatpModeWrite ==
    [][/\ Stepped
       /\ last'.instr.op \in {"Csrrw", "Csrrwi"}
       /\ last'.instr.csr = \h180
       /\ cpu.csr.priv_mode >= Supervisor
       => LET value == IF last'.instr.op = "Csrrw"
                       THEN cpu.regs[last'.instr.rs1]
                       ELSE FromNat(last'.instr.shamt)
          IN  /\ last'.trap = NoTrap
              /\ cpu'.csr.satp = IF Field(value, 60, 4) \in {0, 8}
                                 THEN value ELSE cpu.csr.satp]_vars

\* C17 as stated: every CSR instruction that performs a write to satp calls
\* the TLB flush in the same step: Csrrw and Csrrwi always, Csrrs, Csrrc,
\* Csrrsi and Csrrci whenever their source register index or immediate is
\* non-zero.
SatpWriteFlushes ==
    [][/\ Stepped
       /\ last'.instr.op \in CsrOps
       /\ last'.instr.csr = \h180
       /\ last'.trap = NoTrap
       /\ \/ last'.instr.op \in {"Csrrw", "Csrrwi"}
          \/ last'.instr.op \in {"Csrrs", "Csrrc"} /\ last'.instr.rs1 # 0
          \/ last'.instr.op \in {"Csrrsi", "Csrrci"} /\ last'.instr.shamt # 0
       => last'.flush]_vars

\* C18: Csrrw, Csrrs and Csrrc with rd = rs1 use the value rs1 had before
\* the instruction for the CSR write, and rd receives the value the CSR
\* had before the instruction.
CsrSourceCaptured ==
    [][/\ Stepped
       /\ last'.instr.op \in {"Csrrw", "Csrrs", "Csrrc"}
       /\ last'.instr.rd = last'.instr.rs1
       /\ last'.instr.rd # 0
       /\ last'.trap = NoTrap
       => LET old == read(cpu.csr, last'.instr.csr).val
              src == cpu.regs[last'.instr.rs1]
              new == CASE last'.instr.op = "Csrrw" -> src
                       [] last'.instr.op = "Csrrs" -> Or(old, src)
                       [] last'.instr.op = "Csrrc" -> And(old, Not(src))
          IN  /\ cpu'.regs = [cpu.regs EXCEPT ![last'.instr.rd] = old]
              /\ [cpu'.csr EXCEPT !.cycle = cpu.csr.cycle]
                    = write(cpu.csr, last'.instr.csr, new).csr]_vars

\* A csrrc x2, mscratch, x2 with x2 = 5 and mscratch = all ones: x2 holds
\* the old mscratch and mscratch lost bits 0 and 2.
CsrSourceCapturedWitness ==
    /\ last.instr.op = "Csrrc"
    /\ last.instr.rd = 2
    /\ last.instr.rs1 = 2
    /\ last.trap = NoTrap
    /\ cpu.regs[2] = AllOnes
    /\ cpu.csr.mscratch = AllOnes \ {0, 2}

\* C19: Csrrs and Csrrc with rs1 = x0, and Csrrsi and Csrrci with a zero
\* immediate, on a CSR the current privilege can read, perform no write
\* phase: rd receives the CSR value, no CSR changes, the TLB flush is not
\* called and no trap is raised, also when the CSR (misa) refuses writes.
CsrNoWritePhase ==
    [][/\ Stepped
       /\ \/ last'.instr.op \in {"Csrrs", "Csrrc"} /\ last'.instr.rs1 = 0
          \/ last'.instr.op \in {"Csrrsi", "Csrrci"} /\ last'.instr.shamt = 0
       /\ read(cpu.csr, last'.instr.csr).err = "Ok"
       => /\ last'.trap = NoTrap
          /\ cpu'.regs =
                IF last'.instr.rd = 0 THEN cpu.regs
                ELSE [cpu.regs EXCEPT ![last'.instr.rd] =
                        read(cpu.csr, last'.instr.csr).val]
          /\ [cpu'.csr EXCEPT !.cycle = cpu.csr.cycle] = cpu.csr
          /\ ~last'.flush
          /\ cpu'.pc = wrapping_add(cpu.pc, Bit(2))]_vars

\* A csrrs x1, misa, x0 completed without a trap and left misa in x1.
CsrNoWritePhaseWitness ==
    /\ last.instr.op = "Csrrs"
    /\ last.instr.csr = \h301
    /\ last.instr.rs1 = 0
    /\ last.trap = NoTrap
    /\ cpu.regs[1] = MISA

\* C20 as stated: with a host-exit address configured, a store of any
\* width (SB, SH, SW, SD) whose translated physical address equals the door
\* is a host packet: the step halts with the stored value as exit code when
\* device and command are zero and the value is non-zero, and otherwise
\* acknowledges by zeroing the eight bytes at the door.
DoorStoreAnyWidth ==
    [][/\ Stepped
       /\ last'.instr.op \in {"SB", "SH", "SW", "SD"}
       /\ host_exit_addr # NoHostExit
       => LET addr == wrapping_add(cpu.regs[last'.instr.rs1], last'.instr.imm)
              t == translate_addr(addr, cpu.csr.satp, FALSE, TRUE, cpu.csr.priv_mode, mem)
              value == cpu.regs[last'.instr.rs2]
                         \cap (0..(8 * AccessSize(last'.instr.op) - 1))
          IN  t.ok /\ t.paddr = host_exit_addr
              => IF Field(value, 56, 8) = 0 /\ Field(value, 48, 8) = 0 /\ value # Zero
                 THEN /\ last'.ret = "HaltHostExit"
                      /\ last'.code = value
                      /\ mem' = mem
                 ELSE /\ last'.trap = NoTrap
                      /\ mem' = write_phys(mem, t.paddr, 8, Zero).data]_vars

ExecutedCounter ==
    [][Stepped
       => /\ last'.ret \notin {"Trapped", "HaltHostExit"}
             => /\ executed' = executed + 1
                /\ (last'.ret = "HaltMaxInsns")
                      = (max_insns # 0 /\ executed + 1 >= max_insns)
          /\ max_insns = 0 => last'.ret # "HaltMaxInsns"]_vars

\* A step that delivered a trap to a configured handler was the one that
\* used up the budget: it counted and returned Halt(MaxInsns).
ExecutedCounterWitness ==
    /\ last.ret = "HaltMaxInsns"
    /\ last.trap # NoTrap
    /\ last.instr = NoInstr
    /\ executed = max_insns

\* C24 as stated: an instruction that raises a trap during execute leaves
\* every general-purpose register and every memory byte unchanged, and the
\* trap carries the pc of that instruction; in particular a CSR instruction
\* whose write phase fails does not update rd.
PreciseTrap ==
    [][/\ Stepped
       /\ last'.instr # NoInstr
       /\ last'.trap # NoTrap
       => /\ cpu'.regs = cpu.regs
          /\ mem' = mem
          /\ last'.trap.pc = cpu.pc]_vars

\* C25: a step whose fetched word fails to decode takes an
\* IllegalInstruction trap (cause 2) whose xepc is the pc of the word and
\* whose xtval is the 32-bit encoding, and leaves the general-purpose
\* registers and memory unchanged.
DecodeFailure ==
    [][/\ Stepped
       /\ last'.instr = NoInstr
       /\ last'.trap.kind = "IllegalInstruction"
       => /\ \E inst \in ImageWords(image, FetchAddr) :
                /\ decode(inst) = InvalidOpcode
                /\ last'.trap = MkTrap("IllegalInstruction", cpu.pc, inst)
          /\ IF cpu'.csr.priv_mode = Supervisor
             THEN /\ cpu'.csr.sepc = cpu.pc
                  /\ cpu'.csr.scause = Bit(1)
                  /\ cpu'.csr.stval = last'.trap.info
             ELSE /\ cpu'.csr.mepc = cpu.pc
                  /\ cpu'.csr.mcause = Bit(1)
                  /\ cpu'.csr.mtval = last'.trap.info
          /\ cpu'.regs = cpu.regs
          /\ mem' = mem]_vars

\* The word 0xffffffff was fetched past the boot image and reported in
\* mtval with cause 2.
DecodeFailureWitness ==
    /\ last.instr = NoInstr
    /\ last.trap.kind = "IllegalInstruction"
    /\ last.trap.info = Bits32
    /\ cpu.csr.mtval = Bits32
    /\ cpu.csr.mcause = Bit(1)
    /\ cpu.csr.mepc = wrapping_add(MemBase, Bit(6))

\* C26 as stated: an out-of-bounds physical access is dispatched as the
\* access fault of its kind: cause 1 for an instruction fetch, cause 5 for
\* a load, cause 7 for a store, each with xepc = the pc of the instruction.
AccessFaultCause ==
    [][/\ Stepped
       /\ last'.trap.kind = "Mem"
       => LET expected == CASE last'.instr = NoInstr -> 1
                            [] last'.instr.op \in LoadOps -> 5
                            [] OTHER -> 7
          IN  IF cpu'.csr.priv_mode = Supervisor
              THEN cpu'.csr.scause = FromNat(expected) /\ cpu'.csr.sepc = cpu.pc
              ELSE cpu'.csr.mcause = FromNat(expected) /\ cpu'.csr.mepc = cpu.pc]_vars

\* C28: every mstatus bit outside SIE, MIE, SPIE, MPIE, SPP, MPP, MPRV, SUM
\* and MXR is zero in every state: writes through mstatus and sstatus,
\* trap entries and MRET never set a bit outside that mask.
MstatusMask == cpu.csr.mstatus \subseteq {1, 3, 5, 7, 8, 11, 12, 17, 18, 19}

\* A csrrw of all ones to mstatus set exactly the bits of the mask.
MstatusMaskWitness ==
    /\ last.instr.op = "Csrrw"
    /\ last.instr.csr = \h300
    /\ last.trap = NoTrap
    /\ cpu.regs[2] = AllOnes
    /\ cpu.csr.mstatus = {1, 3, 5, 7, 8, 11, 12, 17, 18, 19}

\* C29: no CSR instruction changes a bit of mip other than SSIP (bit 1)
\* and MSIP (bit 3), and an instruction on sip changes at most SSIP: the
\* timer and external pending bits keep their values.
MipSoftwareBits ==
    [][/\ Stepped
       /\ last'.instr.op \in CsrOps
       => /\ cpu'.csr.mip \ {1, 3} = cpu.csr.mip \ {1, 3}
          /\ last'.instr.csr = \h144 => cpu'.csr.mip \ {1} = cpu.csr.mip \ {1}]_vars

\* A csrrw of all ones to mip, made while both timer bits were pending,
\* set SSIP and MSIP and nothing else.
MipSoftwareBitsWitness ==
    /\ last.instr.op = "Csrrw"
    /\ last.instr.csr = \h344
    /\ last.trap = NoTrap
    /\ cpu.regs[2] = AllOnes
    /\ cpu.csr.mip = {1, 3, 5, 7}

\* C30 as stated: the decoder accepts the M-extension encodings (MUL,
\* MULH, MULHSU, MULHU, DIV, DIVU, REM, REMU and their -W forms) and the
\* system encodings SRET, WFI and SFENCE.VMA, so no step reports one of
\* these words as an illegal instruction.
DecoderAcceptsListed ==
    [][/\ Stepped
       /\ last'.instr = NoInstr
       /\ last'.trap.kind = "IllegalInstruction"
       => last'.trap.info \notin
            {EncR(1, rs2, rs1, funct3, rd, \b0110011) :
                rs2 \in 0..3, rs1 \in 0..3, funct3 \in 0..7, rd \in 0..3}
            \cup {EncR(1, rs2, rs1, funct3, rd, \b0111011) :
                rs2 \in 0..3, rs1 \in 0..3, funct3 \in {0, 4, 5, 6, 7}, rd \in 0..3}
            \cup {EncI(\h102, 0, 0, 0, OP_SYSTEM),
                  EncI(\h105, 0, 0, 0, OP_SYSTEM),
                  EncR(\b0001001, 0, 0, 0, 0, OP_SYSTEM)}]_vars

PageFaultCause ==
    [][/\ Stepped
       /\ last'.ret # "Trapped"
       /\ last'.trap.kind = "Mem"
       => LET addr == IF last'.instr = NoInstr THEN cpu.pc
                      ELSE wrapping_add(cpu.regs[last'.instr.rs1], last'.instr.imm)
              t == translate_addr(addr, cpu.csr.satp, last'.instr = NoInstr,
                                  last'.instr.op \in {"SB", "SH", "SW", "SD"},
                                  cpu.csr.priv_mode, mem)
              expected == CASE last'.instr = NoInstr -> 12
                            [] last'.instr.op \in LoadOps -> 13
                            [] OTHER -> 15
          IN  ~t.ok
              => IF cpu'.csr.priv_mode = Supervisor
                 THEN cpu'.csr.scause = FromNat(expected) /\ cpu'.csr.stval = addr
                 ELSE cpu'.csr.mcause = FromNat(expected) /\ cpu'.csr.mtval = addr]_vars

\* The re-encoding oracle: the 32-bit word of an Instr value through the
\* standard R, I, S, B, U and J layouts, with the opcode and funct fields
\* of its variant.
encode(i) ==
    LET op == i.op
        R(funct7, funct3, opcode) == EncR(funct7, i.rs2, i.rs1, funct3, i.rd, opcode)
        I(funct3, opcode) ==
            Or(Shl(i.imm \cap (0..11), 20), EncI(0, i.rs1, funct3, i.rd, opcode))
        Sh(upper, funct3, opcode) == EncI(upper + i.shamt, i.rs1, funct3, i.rd, opcode)
        S(funct3) ==
            Or(Or(Shl(i.imm \cap (5..11), 20), Shl(i.imm \cap (0..4), 7)),
               EncR(0, i.rs2, i.rs1, funct3, 0, OP_STORE))
        B(funct3) ==
            Or(Or(Or(Shl(i.imm \cap {12}, 19), Shl(i.imm \cap (5..10), 20)),
                  Or(Shl(i.imm \cap (1..4), 7), Shr(i.imm \cap {11}, 4))),
               EncR(0, i.rs2, i.rs1, funct3, 0, \b1100011))
        U(opcode) == Or(i.imm \cap (12..31), EncI(0, 0, 0, i.rd, opcode))
        J == Or(Or(Or(Shl(i.imm \cap {20}, 11), Shl(i.imm \cap (1..10), 20)),
                   Or(Shl(i.imm \cap {11}, 9), i.imm \cap (12..19))),
                EncI(0, 0, 0, i.rd, \b1101111))
        Csr(funct3, src) == EncI(i.csr, src, funct3, i.rd, OP_SYSTEM)
    IN  CASE op = "Add" -> R(\h00, 0, \b0110011)
          [] op = "Sub" -> R(\h20, 0, \b0110011)
          [] op = "Xor" -> R(\h00, 4, \b0110011)
          [] op = "Or" -> R(\h00, 6, \b0110011)
          [] op = "And" -> R(\h00, 7, \b0110011)
          [] op = "Sll" -> R(\h00, 1, \b0110011)
          [] op = "Srl" -> R(\h00, 5, \b0110011)
          [] op = "Sra" -> R(\h20, 5, \b0110011)
          [] op = "Slt" -> R(\h00, 2, \b0110011)
          [] op = "Sltu" -> R(\h00, 3, \b0110011)
          [] op = "Addw" -> R(\h00, 0, \b0111011)
          [] op = "Subw" -> R(\h20, 0, \b0111011)
          [] op = "Sllw" -> R(\h00, 1, \b0111011)
          [] op = "Srlw" -> R(\h00, 5, \b0111011)
          [] op = "Sraw" -> R(\h20, 5, \b0111011)
          [] op = "Addi" -> I(0, OP_IMM)
          [] op = "Xori" -> I(4, OP_IMM)
          [] op = "Ori" -> I(6, OP_IMM)
          [] op = "Andi" -> I(7, OP_IMM)
          [] op = "Slti" -> I(2, OP_IMM)
          [] op = "Sltiu" -> I(3, OP_IMM)
          [] op = "Addiw" -> I(0, \b0011011)
          [] op = "Slli" -> Sh(0, 1, OP_IMM)
          [] op = "Srli" -> Sh(0, 5, OP_IMM)
          [] op = "Srai" -> Sh(\h400, 5, OP_IMM)
          [] op = "Slliw" -> Sh(0, 1, \b0011011)
          [] op = "Srliw" -> Sh(0, 5, \b0011011)
          [] op = "Sraiw" -> Sh(\h400, 5, \b0011011)
          [] op = "LB" -> I(0, \b0000011)
          [] op = "LH" -> I(1, \b0000011)
          [] op = "LW" -> I(2, \b0000011)
          [] op = "LD" -> I(3, \b0000011)
          [] op = "LBU" -> I(4, \b0000011)
          [] op = "LHU" -> I(5, \b0000011)
          [] op = "LWU" -> I(6, \b0000011)
          [] op = "SB" -> S(0)
          [] op = "SH" -> S(1)
          [] op = "SW" -> S(2)
          [] op = "SD" -> S(3)
          [] op = "Beq" -> B(0)
          [] op = "Bne" -> B(1)
          [] op = "Blt" -> B(4)
          [] op = "Bge" -> B(5)
          [] op = "Bltu" -> B(6)
          [] op = "Bgeu" -> B(7)
          [] op = "Lui" -> U(OP_LUI)
          [] op = "Auipc" -> U(OP_AUIPC)
          [] op = "Jal" -> J
          [] op = "Jalr" -> I(0, \b1100111)
          [] op = "Ecall" -> EncI(\h000, 0, 0, 0, OP_SYSTEM)
          [] op = "Ebreak" -> EncI(\h001, 0, 0, 0, OP_SYSTEM)
          [] op = "Mret" -> EncI(\h302, 0, 0, 0, OP_SYSTEM)
          [] op = "Csrrw" -> Csr(1, i.rs1)
          [] op = "Csrrs" -> Csr(2, i.rs1)
          [] op = "Csrrc" -> Csr(3, i.rs1)
          [] op = "Csrrwi" -> Csr(5, i.shamt)
          [] op = "Csrrsi" -> Csr(6, i.shamt)
          [] op = "Csrrci" -> Csr(7, i.shamt)
          [] op = "Fence" -> EncI(\h0FF, 0, 0, 0, \b0001111)
          [] OTHER -> Zero

\* C31 as stated: every word that a step fetches and the decoder accepts
\* is reproduced by re-encoding the decoded instruction, so the decoder
\* accepts no word with bits it ignores.
DecodeRoundTrip ==
    [][/\ Stepped
       /\ last'.instr # NoInstr
       => \A inst \in ImageWords(image, FetchAddr) :
             decode(inst) = last'.instr => encode(decode(inst)) = inst]_vars

\* C32: division and remainder never trap and follow the table.  After
\* div x3, x1, x2; rem x4, x1, x2; divu x5, x1, x2; remu x6, x1, x2: no
\* step trapped; with x2 = 0, x3 = -1, x5 = all ones and x4 = x6 = x1;
\* with x1 = INT64_MIN and x2 = -1, x3 = INT64_MIN and x4 = 0; otherwise
\* x1 = x3 * x2 + x4 with |x4| < |x2| and x4 zero or of the sign of x1
\* (truncation toward zero), and x1 = x5 * x2 + x6 with x6 < x2 unsigned.
DivRemTable ==
    LET RECURSIVE MulR(_, _, _, _)
        MulR(x, y, lo, hi) ==
            IF lo = hi THEN (IF lo \in y THEN Shl(x, lo) ELSE Zero)
            ELSE wrapping_add(MulR(x, y, lo, (lo + hi) \div 2),
                              MulR(x, y, (lo + hi) \div 2 + 1, hi))
        MulU(x, y, i) == MulR(x, y, i, 63)
        Abs(v) == IF 63 \in v THEN wrapping_sub(Zero, v) ELSE v
        x1 == cpu.regs[1]
        x2 == cpu.regs[2]
        x3 == cpu.regs[3]
        x4 == cpu.regs[4]
        x5 == cpu.regs[5]
        x6 == cpu.regs[6]
    IN  /\ last.instr.op \in {"Div", "Rem", "Divu", "Remu"}
           => last.ret = "Ok" /\ last.trap = NoTrap
       /\ last.instr.op = "Remu"
           => /\ cpu.pc = wrapping_add(MemBase, Bit(4))
              /\ IF x2 = Zero
                 THEN x3 = AllOnes /\ x5 = AllOnes /\ x4 = x1 /\ x6 = x1
                 ELSE /\ IF x1 = Bit(63) /\ x2 = AllOnes
                         THEN x3 = Bit(63) /\ x4 = Zero
                         ELSE /\ wrapping_add(MulU(x3, x2, 0), x4) = x1
                              /\ LtU(Abs(x4), Abs(x2))
                              /\ x4 = Zero \/ (63 \in x4) = (63 \in x1)
                              /\ LtU(Abs(MulU(x3, x2, 0)), Abs(x1))
                                 \/ Abs(MulU(x3, x2, 0)) = Abs(x1)
                      /\ wrapping_add(MulU(x5, x2, 0), x6) = x1
                      /\ LtU(x6, x2)
                      /\ ~LtU(x1, MulU(x5, x2, 0))

\* The spec's edge case: x1 = INT64_MIN and x2 = -1 gave x3 = INT64_MIN
\* and x4 = 0 without a trap, and divu / remu gave 0 and INT64_MIN.
DivRemTableWitness ==
    /\ last.instr.op = "Remu"
    /\ last.trap = NoTrap
    /\ cpu.regs[1] = Bit(63)
    /\ cpu.regs[2] = AllOnes
    /\ cpu.regs[3] = Bit(63)
    /\ cpu.regs[4] = Zero
    /\ cpu.regs[5] = Zero
    /\ cpu.regs[6] = Bit(63)

\* C33: a step that executes JAL sets pc to pc + offset, one that executes
\* JALR sets pc to (rs1 + imm) with bit 0 cleared, rs1 read before rd is
\* written; both write pc + 4 to rd and nothing to any other register,
\* nothing at all when rd = x0, and both additions wrap at 64 bits.
JumpLink ==
    [][/\ Stepped
       /\ last'.instr.op \in {"Jal", "Jalr"}
       => LET i == last'.instr
          IN  /\ last'.trap = NoTrap
              /\ cpu'.pc = IF i.op = "Jal" THEN wrapping_add(cpu.pc, i.imm)
                           ELSE wrapping_add(cpu.regs[i.rs1], i.imm) \ {0}
              /\ \A n \in 0..31 :
                    cpu'.regs[n] = IF n = i.rd /\ n # 0
                                   THEN wrapping_add(cpu.pc, Bit(2))
                                   ELSE cpu.regs[n]]_vars

\* jalr x1, 9(x1) at Memory::base + 4 with x1 = Memory::base jumped to
\* Memory::base + 8 (bit 0 of base + 9 cleared, the old x1 used) and left
\* the return address base + 8 in x1.
JumpLinkWitness ==
    /\ last.instr.op = "Jalr"
    /\ last.instr.rd = 1
    /\ last.instr.rs1 = 1
    /\ last.instr.imm = {0, 3}
    /\ last.trap = NoTrap
    /\ cpu.pc = wrapping_add(MemBase, Bit(3))
    /\ cpu.regs[1] = wrapping_add(MemBase, Bit(3))
    /\ executed = 2

\* C34: privilege is raised only by trap entry.  A step that takes a trap
\* never lowers the privilege; a step that retires MRET never raises it;
\* SRET, executed in any reachable state, leaves User or Supervisor and
\* never a higher privilege than before; a step that retires any other
\* instruction keeps the privilege; so a step that enters Machine mode
\* from User or Supervisor mode took a trap, and lands on the machine
\* trap vector (the base of mtvec, or base + 4 * cause for an interrupt in
\* vectored mode) when the handler is configured.
PrivilegeRaisedOnlyByTrap ==
    [][Stepped
       => LET before == cpu.csr.priv_mode
              after == cpu'.csr.priv_mode
              sret == execute(cpu, mem, MkInstr("Sret", 0, 0, 0, Zero, 0, 0),
                              host_exit_addr)
          IN  /\ last'.trap # NoTrap => after >= before
              /\ last'.trap = NoTrap /\ last'.instr.op = "Mret" => after <= before
              /\ last'.trap = NoTrap /\ last'.instr.op # "Mret" => after = before
              /\ sret.res = "Ok"
                 => /\ sret.cpu.csr.priv_mode \in {User, Supervisor}
                    /\ sret.cpu.csr.priv_mode <= before
              /\ sret.res = "Ok" \/ before = User
              /\ after = Machine /\ before # Machine
                 => /\ last'.trap # NoTrap
                    /\ last'.ret # "Trapped"
                       => cpu'.pc = TrapVector(cpu.csr.mtvec, last'.trap)]_vars

\* An ecall made in User mode (mcause 8) entered Machine mode at the
\* base of mtvec, with MPP recording User.
PrivilegeRaisedOnlyByTrapWitness ==
    /\ last.trap # NoTrap
    /\ last.ret = "Continue"
    /\ cpu.csr.priv_mode = Machine
    /\ cpu.csr.mcause = FromNat(8)
    /\ mpp_raw(cpu.csr) = User
    /\ cpu.csr.mtvec # Zero
    /\ cpu.pc = cpu.csr.mtvec \ {0, 1}

\* C35: a CSR instruction that completes without a trap in Supervisor or
\* User mode leaves the machine-level state as it was: MIE, MPIE, MPP and
\* MPRV of mstatus, medeleg, mideleg, mtvec, mepc, mcause, mtval,
\* mscratch, the machine bits (3, 7, 11) of mie and mip, pmpcfg0 and
\* pmpaddr0; executed in User mode it changes no CSR at all.
LowPrivilegeCsrFrame ==
    [][/\ Stepped
       /\ last'.instr.op \in CsrOps
       /\ last'.trap = NoTrap
       /\ cpu.csr.priv_mode # Machine
       => LET old == cpu.csr
              Kept(new) ==
                  /\ new.mstatus \cap {3, 7, 11, 12, 17} = old.mstatus \cap {3, 7, 11, 12, 17}
                  /\ new.medeleg = old.medeleg
                  /\ new.mideleg = old.mideleg
                  /\ new.mtvec = old.mtvec
                  /\ new.mepc = old.mepc
                  /\ new.mcause = old.mcause
                  /\ new.mtval = old.mtval
                  /\ new.mscratch = old.mscratch
                  /\ new.mie \cap {3, 7, 11} = old.mie \cap {3, 7, 11}
                  /\ new.mip \cap {3, 7, 11} = old.mip \cap {3, 7, 11}
                  /\ new.pmpcfg0 = old.pmpcfg0
                  /\ new.pmpaddr0 = old.pmpaddr0
              Done(e) ==
                  /\ e.res = "Ok"
                  /\ Kept(e.cpu.csr)
                  /\ old.priv_mode = User => e.cpu.csr = old
          IN  /\ Kept(cpu'.csr)
              /\ Done(execute(cpu, mem, last'.instr, host_exit_addr))]_vars

\* In Supervisor mode csrrw x0, sstatus, x2 with x2 = -1 completed: SIE,
\* SPIE, SPP, SUM and MXR are set, MIE, MPP and MPRV are still clear.
LowPrivilegeCsrFrameWitness ==
    /\ last.instr.op = "Csrrw"
    /\ last.instr.csr = \h100
    /\ last.trap = NoTrap
    /\ cpu.csr.priv_mode = Supervisor
    /\ cpu.regs[2] = AllOnes
    /\ {1, 5, 8, 18, 19} \subseteq cpu.csr.mstatus
    /\ cpu.csr.mstatus \cap {3, 11, 12, 17} = {}

\* C36: in the state a trap entry produces, check_pending_interrupt
\* returns None whatever mip and mie hold (for every set of interrupt
\* bits pending and enabled, and for the registers as they are), and the
\* step that follows a trap entry delivers no interrupt.
NoNestedInterrupt ==
    [][/\ Stepped /\ last'.trap # NoTrap
          => /\ check_pending_interrupt(cpu'.csr) = None
             /\ \A bits \in SUBSET IrqBits :
                   check_pending_interrupt([cpu'.csr EXCEPT !.mip = bits,
                                                           !.mie = bits]) = None
       /\ Stepped /\ last.trap # NoTrap => ~is_interrupt(last'.trap)]_vars

\* An interrupt was delivered and its source is still pending and
\* enabled in mip and mie, yet nothing is reported as pending.
NoNestedInterruptWitness ==
    /\ is_interrupt(last.trap)
    /\ last.ret = "Continue"
    /\ And(cpu.csr.mip, cpu.csr.mie) # Zero
    /\ check_pending_interrupt(cpu.csr) = None

\* C37: a trap entry that targets Machine, followed at once by MRET,
\* gives back the privilege, the MIE bit and the pc (bit 0 cleared) of
\* before the trap, whatever that privilege was, and leaves MPIE = 1 and
\* MPP = User.  MRET is applied to the state every such trap entry
\* produces; and a step that retires MRET right after a trap entry does
\* to pc, privilege and mstatus what that application does.
TrapMretRoundTrip ==
    [][/\ /\ Stepped
          /\ last'.trap # NoTrap
          /\ cpu'.csr.priv_mode = Machine
          => LET Back(e) ==
                     /\ e.res = "Ok"
                     /\ e.cpu.csr.priv_mode = cpu.csr.priv_mode
                     /\ (3 \in e.cpu.csr.mstatus) = (3 \in cpu.csr.mstatus)
                     /\ e.cpu.pc = cpu.pc \ {0}
                     /\ 7 \in e.cpu.csr.mstatus
                     /\ e.cpu.csr.mstatus \cap {11, 12} = {}
             IN  Back(execute(cpu', mem', MkInstr("Mret", 0, 0, 0, Zero, 0, 0),
                              host_exit_addr))
       /\ /\ Stepped
          /\ last.trap # NoTrap
          /\ last'.instr.op = "Mret"
          /\ last'.trap = NoTrap
          => LET Same(e) ==
                     /\ cpu'.pc = e.cpu.pc
                     /\ cpu'.csr.priv_mode = e.cpu.csr.priv_mode
                     /\ cpu'.csr.mstatus = e.cpu.csr.mstatus
             IN  Same(execute(cpu, mem, last'.instr, host_exit_addr))]_vars

\* An ecall in Machine mode entered the handler at mtvec (mcause 11) and
\* the MRET there returned to the ecall in Machine mode, with MPIE set
\* and MPP = User.
TrapMretRoundTripWitness ==
    /\ last.instr.op = "Mret"
    /\ last.trap = NoTrap
    /\ cpu.csr.mcause = FromNat(11)
    /\ cpu.csr.priv_mode = Machine
    /\ cpu.pc = cpu.csr.mepc
    /\ cpu.pc = wrapping_add(MemBase, FromNat(12))
    /\ 7 \in cpu.csr.mstatus
    /\ cpu.csr.mstatus \cap {3, 11, 12} = {}

\* C38: counter bookkeeping.  A step that returns Continue adds one to
\* executed and to cycle; a step that returns Halt (HostExit or MaxInsns)
\* adds one to executed and leaves cycle alone; a step that returns
\* Trapped changes neither; nothing but a step changes either.  execute
\* itself never changes cycle, whatever the instruction.  In every state
\* cycle <= executed, and cycle is the number of calls that returned
\* Continue: executed itself while the run goes on or has ended Trapped,
\* executed - 1 once the run has ended with a Halt.
CounterBookkeeping ==
    /\ [](/\ ~LtU(FromNat(executed), cpu.csr.cycle)
          /\ cpu.csr.cycle = FromNat(IF last.ret \in {"HaltHostExit", "HaltMaxInsns"}
                                     THEN executed - 1 ELSE executed))
    /\ [][/\ Stepped
             => /\ last'.ret \in {"Continue", "HaltHostExit", "HaltMaxInsns", "Trapped"}
                /\ executed' = (IF last'.ret = "Trapped" THEN executed ELSE executed + 1)
                /\ cpu'.csr.cycle = (IF last'.ret = "Continue"
                                     THEN wrapping_add(cpu.csr.cycle, Bit(0))
                                     ELSE cpu.csr.cycle)
          /\ Stepped /\ last'.instr # NoInstr
             => LET Kept(e) == e.cpu.csr.cycle = cpu.csr.cycle
                IN  Kept(execute(cpu, mem, last'.instr, host_exit_addr))
          /\ ~Stepped => /\ executed' = executed
                         /\ cpu'.csr.cycle = cpu.csr.cycle]_vars

\* The budget ran out on the third call or later: executed reached
\* max_insns and cycle stayed one behind.
CounterBookkeepingWitness ==
    /\ last.ret = "HaltMaxInsns"
    /\ executed = max_insns
    /\ executed >= 3
    /\ cpu.csr.cycle = FromNat(executed - 1)

RunEndsWithinBudget ==
    /\ [](max_insns > 0
          => /\ executed + (IF last.ret = "Trapped" THEN 1 ELSE 0) <= max_insns
             /\ Running
                => /\ executed < max_insns
                   /\ executed < Len(image) + MaxSteps
                   /\ \A inst \in ImageWords(image, FetchAddr) :
                        LET Returned(o) ==
                                /\ o.ret \in {"Continue", "HaltHostExit",
                                              "HaltMaxInsns", "Trapped"}
                                /\ o.ret = "Continue" => o.executed < max_insns
                        IN  Returned(step(cpu, mem, executed, max_insns,
                                          host_exit_addr, inst)))
    /\ [][/\ Stepped /\ last'.ret = "Continue" => executed' > executed
          /\ Stepped /\ max_insns > 0 /\ executed' = max_insns /\ executed' # executed
             => last'.ret \in {"HaltHostExit", "HaltMaxInsns", "Trapped"}
          /\ ~Stepped => executed' = executed /\ max_insns' = max_insns]_vars
    /\ (max_insns > 0 ~> ~Running)

\* A run used its whole budget: every call but the last returned
\* Continue, the last one is the N-th and returned Halt(MaxInsns), while
\* the timer interrupt it left pending is still enabled.
RunEndsWithinBudgetWitness ==
    /\ max_insns > 0
    /\ executed = max_insns
    /\ last.ret = "HaltMaxInsns"
    /\ cpu.csr.cycle = FromNat(max_insns - 1)
    /\ 7 \in cpu.csr.mip

====
